---- MODULE Spec2Model ----
(***************************************************************************)
(* Model of the Dynamixel protocol 1.0 driver (servo-driver/dynamixel.py,  *)
(* servo_ax12a.py): packet framing and checksum, register read / write     *)
(* transactions on the shared serial line, status error decoding and the   *)
(* sync-write instruction.                                                 *)
(*                                                                         *)
(* A call of a driver method is one action.  The methods are operators     *)
(* over a call context (the session fields, the bytes waiting on the       *)
(* serial line, the transport calls made so far, a pending exception and   *)
(* the return value), composed the way the Python methods call each other. *)
(***************************************************************************)
EXTENDS Integers, Sequences, FiniteSets, TLC

VARIABLES
    return_level,   \* Dynamixel.return_level of every session
    err,            \* Dynamixel.err of every session
    op,             \* the last call: method, session / target id, arguments
    io,             \* calls made on the serial port by the last call, in order
    outcome,        \* what the last call handed to its caller
    logged,         \* exception classes written to debug.log by the last call
    printed,        \* "!!! Error occured !!!" printed by the last call
    decoded,        \* error bytes passed to __log_excep by the last call
    pc,             \* where each of two concurrent callers is in its call
    line,           \* bytes waiting in the input buffer of the serial port
    regs,           \* the register table of the servo behind every id
    want,           \* what the caller last wrote to the registers it reads back
    joints,         \* the attributes of the JointDrive object of every id
    lists,          \* the caller's [joint, angle, speed] lists after a sync call
    pending,        \* the buffered write every servo holds until an action
    joint_drive_positions   \* ServoMaster.joint_drive_positions, in order

vars == <<return_level, err, op, io, outcome, logged, printed, decoded,
          pc, line, regs, want, joints, lists, pending,
          joint_drive_positions>>

---------------------------------------------------------------------------
(* Bounds of the model *)

MaxCount == 2       \* most bytes asked for by one read request
MaxData == 2        \* most data bytes of one register write
MaxDevices == 2     \* most entries of an enumerated sync-write batch
MaxValues == 3      \* most values of one sync-write entry
BigBatch == 51      \* entries of the large uniform sync-write batch

Ids == {1, 2}                       \* servo ids of the sessions
Registers == {5, 30}                \* return delay time, goal position
DataBytes == {0, 255}               \* bytes of write data and of read replies
Words == {255, 512, 513}               \* 16-bit values written by write_word
SyncWords == {513}                  \* 16-bit values of sync-write entries
ErrBytes == {0, 5}                  \* error bytes a status packet carries
Levels == {0, 1, 2}                 \* status return levels

---------------------------------------------------------------------------
(* Program constants *)

ID_BROADCAST == 254
DIRECT_ACTION == 3
TRIGGERT_ACTION == 4
STATUS_PACKET_BASE_LENGTH == 6
RETURN_LEVEL == 16
RETURN_DELAY_TIME == 5
GOAL_POSITION == 30
MOVING_SPEED == 32
PRESENT_POSITION == 36
PRESENT_SPEED == 38
CW_ANGLE_LIMIT == 6
CCW_ANGLE_LIMIT == 8
ANGLE_MAX_TICKS == 1023
ANGLE_MAX_DEGREE == 300
ANGLE_MIN_DEGREE == 0
SPEED_MAX_TICKS == 1023
LIMITED_MAX_TICKS == 720

pkt_ping == <<255, 255, 0, 2, 1, 0>>
pkt_action == <<255, 255, 0, 2, 5, 0>>
pkt_read_data == <<255, 255, 0, 4, 2, 0, 0, 0>>
pkt_write_n_byte == <<255, 255, 0, 0, 3, 0>>
pkt_sync_write == <<255, 255, 254, 0, 131, 0, 0>>

\* excep classes in the order of the error bits 0..6
err_lst == <<"InputVoltageError", "AngleLimitError", "OverheatingError",
             "RangeError", "ChecksumError", "OverloadError", "InstructionError">>

---------------------------------------------------------------------------
(* Python list and integer helpers *)

Min(a, b) == IF a < b THEN a ELSE b

\* sum(lst[lo-1:hi]), halving the range
RECURSIVE SumRange(_, _, _)
SumRange(s, lo, hi) ==
    IF lo > hi THEN 0
    ELSE IF lo = hi THEN s[lo]
    ELSE LET m == (lo + hi) \div 2
         IN SumRange(s, lo, m) + SumRange(s, m + 1, hi)

SumSeq(s) == SumRange(s, 1, Len(s))

\* lst[:n]
Take(s, n) == SubSeq(s, 1, Min(n, Len(s)))

\* lst[n:]
Drop(s, n) == SubSeq(s, Min(n, Len(s)) + 1, Len(s))

\* lst[-1] = v
SetLast(s, v) == [s EXCEPT ![Len(s)] = v]

\* bit i of a non-negative integer
Bit(e, i) == (e \div (2 ^ i)) % 2

\* bytearray(pkt) accepts integers 0..255 only
IsBytes(pkt) == \A i \in 1..Len(pkt) : pkt[i] \in 0..255

NoExc == "none"

---------------------------------------------------------------------------
(* The call context *)

Wr(pkt) == [k |-> "write", n |-> Len(pkt), pkt |-> pkt]
Rd(n, got) == [k |-> "read", n |-> n, pkt |-> got]

RetNone == [kind |-> "None", data |-> <<>>]
RetList(l) == [kind |-> "list", data |-> l]
RetTrue == [kind |-> "True", data |-> <<>>]
RetInt(i) == [kind |-> "int", data |-> <<i>>]

\* the state a call starts in; rx: the bytes the line delivers to the call
Enter(rx) ==
    [rl |-> return_level, err |-> err, rx |-> rx, io |-> <<>>,
     logged |-> {}, printed |-> FALSE, decoded |-> <<>>,
     exc |-> NoExc, ret |-> RetNone,
     dev |-> [on |-> FALSE, tab |-> regs, held |-> pending],
     joints |-> joints, lists |-> <<>>,
     joint_drive_positions |-> joint_drive_positions]

\* the state a call starts in when the servos are on the line: the input
\* buffer holds what earlier calls left in it
EnterOnLine == [Enter(line) EXCEPT !.dev.on = TRUE]

Raise(c, e) == [c EXCEPT !.exc = e, !.ret = RetNone]

\* the rest of a method, F, run on the state c1 a call ends in; c1 is
\* computed once
Bind(c1, F(_)) == CHOOSE c2 \in {F(x) : x \in {c1}} : TRUE

\* custom_decorator.decorator_error_handling: a bare except that prints
decorator_error_handling(c) ==
    IF c.exc = NoExc THEN c
    ELSE [c EXCEPT !.exc = NoExc, !.printed = TRUE, !.ret = RetNone]

\* a status packet as the servo frames it
StatusPkt(id, e, params) ==
    LET p == <<255, 255, id, Len(params) + 2, e>> \o params
    IN p \o <<255 - (SumSeq(SubSeq(p, 3, Len(p))) % 256)>>

\* the control table of a servo: one byte at every address
Addresses == 0..49

\* the table of a servo as shipped: return delay 250, status return level 2
FactoryTable ==
    [a \in Addresses |-> IF a = RETURN_DELAY_TIME THEN 250
                         ELSE IF a = RETURN_LEVEL THEN 2 ELSE 0]

\* table tab with the bytes data stored from address a on
RECURSIVE Store(_, _, _)
Store(tab, a, data) ==
    IF Len(data) = 0 \/ a \notin Addresses THEN tab
    ELSE Store([tab EXCEPT ![a] = data[1]], a + 1, Tail(data))

\* the n bytes of table tab from address a on
Fetch(tab, a, n) == [i \in 1..n |-> IF a + i - 1 \in Addresses
                                     THEN tab[a + i - 1] ELSE 0]

\* the servo d carries out the write it holds, if any
Release(c, d) ==
    LET w == c.dev.held[d]
    IN IF Len(w) = 0 THEN c
       ELSE [c EXCEPT !.dev.tab[d] = Store(@, w[1], Tail(w)),
                      !.dev.held[d] = <<>>]

RECURSIVE ReleaseAll(_, _)
ReleaseAll(c, ds) ==
    IF ds = {} THEN c
    ELSE LET d == CHOOSE x \in ds : TRUE
         IN ReleaseAll(Release(c, d), ds \ {d})

\* a fault-free servo takes the instruction packet pkt off the line: it
\* answers a ping always, a read at status return level 1 and 2 with the
\* bytes of its table, a write or an action at level 2; an immediate write
\* is stored, a buffered write is held until the action instruction; the
\* level in force when the packet arrives decides on the answer, and a
\* broadcast packet is never answered
servo(c, pkt) ==
    LET d == pkt[3]
        instr == pkt[5]
        tab == c.dev.tab[d]
        level == tab[RETURN_LEVEL]
        answered(c1) == IF level = 2
                        THEN [c1 EXCEPT !.rx = @ \o StatusPkt(d, 0, <<>>)]
                        ELSE c1
    IN IF ~c.dev.on THEN c
       ELSE IF d = ID_BROADCAST
            THEN IF instr = pkt_action[5]
                 THEN ReleaseAll(c, DOMAIN c.dev.tab)
                 ELSE c
       ELSE IF d \notin DOMAIN c.dev.tab THEN c
       ELSE IF instr = pkt_ping[5]
            THEN [c EXCEPT !.rx = @ \o StatusPkt(d, 0, <<>>)]
       ELSE IF instr = pkt_read_data[5]
            THEN IF level >= 1
                 THEN [c EXCEPT !.rx = @ \o StatusPkt(d, 0,
                                            Fetch(tab, pkt[6], pkt[7]))]
                 ELSE c
       ELSE IF instr = DIRECT_ACTION
            THEN answered([c EXCEPT !.dev.tab[d] =
                                Store(tab, pkt[6],
                                      SubSeq(pkt, 7, Len(pkt) - 1))])
       ELSE IF instr = TRIGGERT_ACTION
            THEN answered([c EXCEPT !.dev.held[d] =
                                SubSeq(pkt, 6, Len(pkt) - 1)])
       ELSE IF instr = pkt_action[5]
            THEN answered(Release(c, d))
       ELSE c

\* serial.Serial.write(bytearray(pkt))
serial_write(c, pkt) ==
    IF IsBytes(pkt) THEN servo([c EXCEPT !.io = Append(@, Wr(pkt))], pkt)
    ELSE Raise(c, "ValueError")

\* serial.Serial.read(n): up to n of the waiting bytes
serial_read(c, n) ==
    [c EXCEPT !.io = Append(@, Rd(n, Take(c.rx, n))),
              !.rx = Drop(@, n),
              !.ret = RetList(Take(c.rx, n))]

---------------------------------------------------------------------------
(* Dynamixel *)

\* a checksum summed over pkt[1:-1], one header byte too many
check_sum_from_header(pkt) ==
    LET s == SumSeq(SubSeq(pkt, 2, Len(pkt) - 1))
    IN 255 - (s % 256)

\* Dynamixel.__check_sum
check_sum(pkt) ==
    LET s == SumSeq(SubSeq(pkt, 3, Len(pkt) - 1))
    IN 255 - (s % 256)

\* index of the first set bit met by the loop of __log_excep, 8 if none
RECURSIVE FirstSetBit(_, _)
FirstSetBit(e, c) ==
    IF c >= 8 THEN 8
    ELSE IF Bit(e, c) = 1 THEN c
    ELSE FirstSetBit(e, c + 1)

\* the body of Dynamixel.__log_excep
log_excep_body(c, e) ==
    IF e = 0 THEN [c EXCEPT !.ret = RetTrue]
    ELSE LET b == FirstSetBit(e, 0) IN
         IF b + 1 \in DOMAIN err_lst
         THEN Raise([c EXCEPT !.logged = @ \cup {err_lst[b + 1]}],
                    err_lst[b + 1])
         ELSE Raise(c, "IndexError")

\* Dynamixel.__log_excep, decorated
log_excep(c, e) ==
    decorator_error_handling(
        log_excep_body([c EXCEPT !.decoded = Append(@, e)], e))

\* a status read that asks the port again when the reply came short
read_status_pkt_retry(c, s, n_byte) ==
    LET c0 == serial_read(c, n_byte)
        c1 == IF Len(c0.ret.data) < STATUS_PACKET_BASE_LENGTH
              THEN serial_read(c0, n_byte)
              ELSE c0
        status_packet == c1.ret.data
        c2 == IF Len(status_packet) >= STATUS_PACKET_BASE_LENGTH
              THEN [c1 EXCEPT !.err[s] = status_packet[5]]
              ELSE c1
        c3 == log_excep(c2, c2.err[s])
    IN IF c3.exc # NoExc THEN c3
       ELSE [c3 EXCEPT !.ret = RetList(status_packet)]

\* a status read that keeps the error byte in one place for all sessions
read_status_pkt_shared_err(c, s, n_byte) ==
    LET c1 == serial_read(c, n_byte)
        status_packet == c1.ret.data
        c2 == IF Len(status_packet) >= STATUS_PACKET_BASE_LENGTH
              THEN [c1 EXCEPT !.err = [x \in DOMAIN c1.err |->
                                            status_packet[5]]]
              ELSE c1
        c3 == log_excep(c2, c2.err[s])
    IN IF c3.exc # NoExc THEN c3
       ELSE [c3 EXCEPT !.ret = RetList(status_packet)]

\* a status read that clears the last error when the reply came short
read_status_pkt_short_clears(c, s, n_byte) ==
    LET c1 == serial_read(c, n_byte)
        status_packet == c1.ret.data
        c2 == IF Len(status_packet) >= STATUS_PACKET_BASE_LENGTH
              THEN [c1 EXCEPT !.err[s] = status_packet[5]]
              ELSE [c1 EXCEPT !.err[s] = 0]
        c3 == log_excep(c2, c2.err[s])
    IN IF c3.exc # NoExc THEN c3
       ELSE [c3 EXCEPT !.ret = RetList(status_packet)]

\* Dynamixel.__read_status_pkt
read_status_pkt(c, s, n_byte) ==
    LET c1 == serial_read(c, n_byte)
        status_packet == c1.ret.data
        c2 == IF Len(status_packet) >= STATUS_PACKET_BASE_LENGTH
              THEN [c1 EXCEPT !.err[s] = status_packet[5]]
              ELSE c1
        c3 == log_excep(c2, c2.err[s])
    IN IF c3.exc # NoExc THEN c3
       ELSE [c3 EXCEPT !.ret = RetList(status_packet)]

\* a send that expects a status packet at return level 1 as well
send_packet_level_1(c, s, pkt, read_pkt) ==
    LET c1 == serial_write(c, SetLast(pkt, check_sum(pkt)))
    IN IF c1.exc # NoExc THEN c1
       ELSE IF c1.rl[s] >= 1 /\ read_pkt = FALSE
            THEN [read_status_pkt(c1, s, STATUS_PACKET_BASE_LENGTH)
                    EXCEPT !.ret = RetNone]
            ELSE [c1 EXCEPT !.ret = RetNone]

\* Dynamixel.__send_packet
send_packet(c, s, pkt, read_pkt) ==
    LET c1 == serial_write(c, SetLast(pkt, check_sum(pkt)))
    IN IF c1.exc # NoExc THEN c1
       ELSE IF c1.rl[s] = 2 /\ read_pkt = FALSE
            THEN [read_status_pkt(c1, s, STATUS_PACKET_BASE_LENGTH)
                    EXCEPT !.ret = RetNone]
            ELSE [c1 EXCEPT !.ret = RetNone]

\* a read request sent like a write, without read_pkt = True
write_read_data_pkt_no_flag(c, s, register, n_byte) ==
    LET pkt == [pkt_read_data EXCEPT ![3] = s, ![6] = register, ![7] = n_byte]
    IN send_packet(c, s, pkt, FALSE)

\* Dynamixel.__write_read_data_pkt
write_read_data_pkt(c, s, register, n_byte) ==
    LET pkt == [pkt_read_data EXCEPT ![3] = s, ![6] = register, ![7] = n_byte]
    IN send_packet(c, s, pkt, TRUE)

\* return_packet[4:-1], the error byte kept
Payload_from_error(return_packet) ==
    SubSeq(return_packet, 5, Len(return_packet) - 1)

\* return_packet[5:-1]
Payload(return_packet) == SubSeq(return_packet, 6, Len(return_packet) - 1)

\* Dynamixel._request_n_byte
request_n_byte(c, s, register, dt_len) ==
    LET c1 == write_read_data_pkt(c, s, register, dt_len)
        c2 == IF c1.exc # NoExc THEN c1
              ELSE read_status_pkt(c1, s, STATUS_PACKET_BASE_LENGTH + dt_len)
    IN IF c2.exc # NoExc THEN c2
       ELSE [c2 EXCEPT !.ret = RetList(Payload(c2.ret.data))]

\* a word read that asks for one byte per word
request_n_word_one_byte(c, s, register, dt_w_len) ==
    request_n_byte(c, s, register, dt_w_len)

\* Dynamixel._request_n_word
request_n_word(c, s, register, dt_w_len) ==
    request_n_byte(c, s, register, dt_w_len * 2)

\* a write frame whose length byte leaves out the register address
write_n_byte_pkt_short_length(c, s, register, data, trigger, return_status) ==
    LET pkt == [pkt_write_n_byte EXCEPT
                    ![3] = s,
                    ![4] = Len(data) + 2,
                    ![6] = register,
                    ![5] = IF trigger THEN DIRECT_ACTION ELSE TRIGGERT_ACTION]
    IN send_packet(c, s, pkt \o data \o <<0>>, return_status)

\* Dynamixel._write_n_byte_pkt
write_n_byte_pkt(c, s, register, data, trigger, return_status) ==
    LET pkt == [pkt_write_n_byte EXCEPT
                    ![3] = s,
                    ![4] = Len(data) + 3,
                    ![6] = register,
                    ![5] = IF trigger THEN DIRECT_ACTION ELSE TRIGGERT_ACTION]
    IN send_packet(c, s, pkt \o data \o <<0>>, return_status)

\* the words split high byte first
RECURSIVE SplitWords_high_first(_)
SplitWords_high_first(data) ==
    IF Len(data) = 0 THEN <<>>
    ELSE <<(data[1] \div 256) % 256, data[1] % 256>>
            \o SplitWords_high_first(Tail(data))

\* the low and high byte of every word, in order
RECURSIVE SplitWords(_)
SplitWords(data) ==
    IF Len(data) = 0 THEN <<>>
    ELSE <<data[1] % 256, (data[1] \div 256) % 256>> \o SplitWords(Tail(data))

\* a word write that hands the words on as they are
write_n_word_pkt_unsplit(c, s, register, data, trigger) ==
    write_n_byte_pkt(c, s, register, data, trigger, FALSE)

\* Dynamixel._write_n_word_pkt
write_n_word_pkt(c, s, register, data, trigger) ==
    write_n_byte_pkt(c, s, register, SplitWords(data), trigger, FALSE)

\* Dynamixel.__do_action
do_action(c, s, id_) ==
    send_packet(c, s, [pkt_action EXCEPT ![3] = id_], FALSE)

\* Dynamixel.action
action(c, s) == do_action(c, s, s)

\* Dynamixel.action_all: __do_action gets the class as self, and the class
\* attribute __send_packet is then called without an instance
action_all(c) == Raise(c, "TypeError")

\* a ping that reads its reply as a status packet of the session of that id
ping_decoding(c, id) ==
    LET p == [pkt_ping EXCEPT ![3] = id]
        c1 == serial_write(c, SetLast(p, check_sum(p)))
    IN IF c1.exc # NoExc THEN c1
       ELSE read_status_pkt(c1, id, STATUS_PACKET_BASE_LENGTH)

\* Dynamixel.ping
ping(c, id) ==
    LET p == [pkt_ping EXCEPT ![3] = id]
        c1 == serial_write(c, SetLast(p, check_sum(p)))
    IN IF c1.exc # NoExc THEN c1
       ELSE serial_read(c1, STATUS_PACKET_BASE_LENGTH)

---------------------------------------------------------------------------
(* ServoAx12a *)

\* a level setter that takes the new level for its own before the write
set_return_level_early(c, s, level, trigger) ==
    LET switch_level == (c.rl[s] = 1 /\ level = 2)
        c1 == write_n_byte_pkt([c EXCEPT !.rl[s] = level], s, RETURN_LEVEL,
                               <<level>>, trigger, switch_level)
    IN IF c1.exc # NoExc THEN c1
       ELSE [c1 EXCEPT !.ret = RetNone]

\* ServoAx12a.set_return_level
set_return_level(c, s, level, trigger) ==
    LET switch_level == (c.rl[s] = 1 /\ level = 2)
        c1 == write_n_byte_pkt(c, s, RETURN_LEVEL, <<level>>, trigger,
                               switch_level)
    IN IF c1.exc # NoExc THEN c1
       ELSE [c1 EXCEPT !.rl[s] = level, !.ret = RetNone]

---------------------------------------------------------------------------
\* two bytes merged with the low byte in the high place
merge_two_bytes_low_first(a, b) == a + b * 256

\* ServoAx12a.__merge_two_bytes
merge_two_bytes(a, b) == a * 256 + b

\* lst[0] of the list a read request returned
First(c) ==
    IF c.exc # NoExc THEN c
    ELSE IF Len(c.ret.data) < 1 THEN Raise(c, "IndexError")
    ELSE [c EXCEPT !.ret = RetInt(c.ret.data[1])]

\* __merge_two_bytes(return_data[1], return_data[0]) of the list a read
\* request returned
Merged(c) ==
    IF c.exc # NoExc THEN c
    ELSE IF Len(c.ret.data) < 2 THEN Raise(c, "IndexError")
    ELSE [c EXCEPT !.ret = RetInt(merge_two_bytes(c.ret.data[2],
                                                   c.ret.data[1]))]

\* ServoAx12a.get_return_delay
get_return_delay(c, s) == First(request_n_byte(c, s, RETURN_DELAY_TIME, 1))

\* ServoAx12a.get_return_level
get_return_level(c, s) == First(request_n_byte(c, s, RETURN_LEVEL, 1))

\* ServoAx12a.get_goal_position
get_goal_position(c, s) == Merged(request_n_word(c, s, GOAL_POSITION, 1))

\* ServoAx12a.get_moving_speed
get_moving_speed(c, s) == Merged(request_n_word(c, s, MOVING_SPEED, 1))

\* ServoAx12a.get_goal_pos_speed
get_goal_pos_speed(c, s) ==
    Bind(get_goal_position(c, s), LAMBDA c1 :
        IF c1.exc # NoExc THEN c1
        ELSE Bind(get_moving_speed(c1, s), LAMBDA c2 :
                IF c2.exc # NoExc THEN c2
                ELSE [c2 EXCEPT !.ret = RetList(<<c1.ret.data[1],
                                                  c2.ret.data[1]>>)]))

\* ServoAx12a.set_return_delay
set_return_delay(c, s, delay, trigger) ==
    write_n_byte_pkt(c, s, RETURN_DELAY_TIME, <<delay>>, trigger, FALSE)

\* ServoAx12a.set_goal_position
set_goal_position(c, s, position, trigger) ==
    write_n_word_pkt(c, s, GOAL_POSITION, <<position>>, trigger)

\* ServoAx12a.set_moving_speed
set_moving_speed(c, s, speed, trigger) ==
    write_n_word_pkt(c, s, MOVING_SPEED, <<speed>>, trigger)

\* ServoAx12a.set_goal_pos_speed
set_goal_pos_speed(c, s, position, speed, trigger) ==
    LET c1 == write_n_word_pkt(c, s, GOAL_POSITION, <<position>>, trigger)
    IN IF c1.exc # NoExc THEN c1
       ELSE write_n_word_pkt(c1, s, MOVING_SPEED, <<speed>>, trigger)

\* a clockwise limit setter that hands the flag on inverted
set_cw_angle_limit_inverted(c, s, angle, trigger) ==
    write_n_word_pkt(c, s, CW_ANGLE_LIMIT, <<angle>>, ~trigger)

\* ServoAx12a.set_cw_angle_limit
set_cw_angle_limit(c, s, angle, trigger) ==
    write_n_word_pkt(c, s, CW_ANGLE_LIMIT, <<angle>>, trigger)

\* ServoAx12a.set_ccw_angle_limit
set_ccw_angle_limit(c, s, angle, trigger) ==
    write_n_word_pkt(c, s, CCW_ANGLE_LIMIT, <<angle>>, trigger)

---------------------------------------------------------------------------

(* Sync write.  A batch entry [id, vals] stands for the Python list         *)
(* [servo object, value_1, ..., value_n].                                   *)

\* custom_exceptions.PacketTypeError(...): JointDriveError.__init__ calls
\* self.log, which only DynamixelError defines
new_PacketTypeError(c) == Raise(c, "AttributeError")

\* len(data_lst) after the first k entries of the batch
DataLen(packet, k) == SumSeq([i \in 1..k |-> Len(packet[i].vals)])

\* the per-device blocks: id, then low and high byte of every value
RECURSIVE SyncBlocksRange(_, _, _)
SyncBlocksRange(packet, lo, hi) ==
    IF lo > hi THEN <<>>
    ELSE IF lo = hi THEN <<packet[lo].id>> \o SplitWords(packet[lo].vals)
    ELSE LET m == (lo + hi) \div 2
         IN SyncBlocksRange(packet, lo, m) \o SyncBlocksRange(packet, m + 1, hi)

SyncBlocks(packet) == SyncBlocksRange(packet, 1, Len(packet))

\* a sync send that waits for a status packet like any other write
send_sync_reading(c, pkt) ==
    serial_read(serial_write(c, SetLast(pkt, check_sum(pkt))),
                STATUS_PACKET_BASE_LENGTH)

\* Dynamixel._send_sync
send_sync(c, pkt) == serial_write(c, SetLast(pkt, check_sum(pkt)))

\* the length check of the first loop of _sync_write
SyncLengthsOk(packet) ==
    \A k \in 1..Len(packet) : DataLen(packet, k) % k = 0

\* a sync frame whose data length counts the values, not their bytes
sync_write_body_value_count(c, mem_address, packet) ==
    IF ~SyncLengthsOk(packet) THEN new_PacketTypeError(c)
    ELSE IF Len(packet) = 0 THEN Raise(c, "ZeroDivisionError")
    ELSE LET n == Len(packet)
             data_length == DataLen(packet, n) \div n
             pkt == [pkt_sync_write EXCEPT
                        ![4] = (data_length + 1) * n + 4,
                        ![6] = mem_address,
                        ![7] = data_length]
         IN send_sync(c, pkt \o SyncBlocks(packet) \o <<0>>)

\* the body of Dynamixel._sync_write
sync_write_body(c, mem_address, packet) ==
    IF ~SyncLengthsOk(packet) THEN new_PacketTypeError(c)
    ELSE IF Len(packet) = 0 THEN Raise(c, "ZeroDivisionError")
    ELSE LET n == Len(packet)
             data_length == (DataLen(packet, n) \div n) * 2
             pkt == [pkt_sync_write EXCEPT
                        ![4] = (data_length + 1) * n + 4,
                        ![6] = mem_address,
                        ![7] = data_length]
         IN send_sync(c, pkt \o SyncBlocks(packet) \o <<0>>)

\* Dynamixel._sync_write, decorated
sync_write(c, mem_address, packet) ==
    decorator_error_handling(sync_write_body(c, mem_address, packet))

---------------------------------------------------------------------------
(* JointDrive.  Angles are counted in 1/1023 of a degree (the code holds    *)
(* the same angles in radian: degrees * pi / 180), so that a tick is 300    *)
(* units, angle * _ANGLE_UNIT is units / 300 and ticks / _ANGLE_UNIT is     *)
(* ticks * 300; speeds are whole numbers of rpm or percent.                 *)

\* one degree in units of angle
Degree == ANGLE_MAX_TICKS

\* JointDrive._ANGLE_RADIAN_ZERO
ANGLE_RADIAN_ZERO == ((ANGLE_MAX_DEGREE - ANGLE_MIN_DEGREE) * Degree) \div 2

\* the attributes JointDrive.__init__ gives a joint built with its defaults
a_offset == ANGLE_RADIAN_ZERO + 0
a_max == ANGLE_MAX_DEGREE * Degree
a_min == 0

\* int(x) of the quotient a / b, b > 0: rounded towards zero
Trunc(a, b) == IF a >= 0 THEN a \div b ELSE -((-a) \div b)

\* numpy.clip
Clip(x, lo, hi) == IF x < lo THEN lo ELSE IF x > hi THEN hi ELSE x

\* JointDrive.__convert_angle_to_ticks
convert_angle_to_ticks(angle, ccw, offset) ==
    LET ticks == Trunc((angle + offset) * ANGLE_MAX_TICKS,
                       (ANGLE_MAX_DEGREE - ANGLE_MIN_DEGREE) * Degree)
    IN IF ccw THEN 1023 - 1 - ticks ELSE ticks

\* 1 / JointDrive._ANGLE_UNIT, the angle one tick spans: a whole number
\* of units
TickAngle == ((ANGLE_MAX_DEGREE - ANGLE_MIN_DEGREE) * Degree)
                \div ANGLE_MAX_TICKS

\* JointDrive.__convert_ticks_to_angle
convert_ticks_to_angle(ticks, ccw, offset) ==
    LET t == IF ccw THEN 1023 - ticks ELSE ticks
    IN t * TickAngle - offset

\* ServoAx12a._SPEED_UNIT, 0.111 rpm: speeds of the conversions are counted
\* in 1/1000 rpm
SPEED_UNIT == 111

\* ServoAx12a._SPEED_MAX_RPM
SPEED_MAX_RPM == SPEED_MAX_TICKS * SPEED_UNIT

\* a conversion of speed that leaves the clip out
convert_speed_to_ticks_unclipped(speed) ==
    (2 * speed + SPEED_UNIT) \div (2 * SPEED_UNIT)

\* JointDrive.__convert_speed_to_ticks:
\* floor(speed / _SPEED_UNIT + 0.5) = floor((2 speed + unit) / (2 unit))
convert_speed_to_ticks(speed) ==
    (2 * Clip(speed, 0, SPEED_MAX_RPM) + SPEED_UNIT) \div (2 * SPEED_UNIT)

\* JointDrive.__convert_percent_speed_to_ticks:
\* floor(perc * _LIMITED_PERC_UNIT), _LIMITED_PERC_UNIT = 720 / 100
convert_percent_speed_to_ticks(perc) ==
    (Clip(perc, 0, 100) * LIMITED_MAX_TICKS) \div 100

\* speed > ServoAx12a._SPEED_MAX_RPM (1023 * 0.111) or speed < 0
SpeedInvalid(speed) == speed * 1000 > SPEED_MAX_TICKS * 111 \/ speed < 0

\* the names a JointDrive object answers to after name mangling
JointDriveAttributes ==
    {"_JointDrive__convert_angle_to_ticks",
     "_JointDrive__convert_ticks_to_angle",
     "_JointDrive__convert_speed_to_ticks",
     "_JointDrive__convert_ticks_to_speed",
     "_JointDrive__convert_percent_speed_to_ticks",
     "_JointDrive__convert_ticks_to_voltage"}

\* attribute lookup on a JointDrive object
getattr(c, name) ==
    IF name \in JointDriveAttributes THEN c ELSE Raise(c, "AttributeError")

\* custom_exceptions.MemoryAccessError(...): like PacketTypeError, its
\* __init__ calls self.log, which JointDriveError does not have
new_MemoryAccessError(c) == Raise(c, "AttributeError")

\* JointDrive.set_goal_position, decorated; its first statement assigns
\* the angle to a local variable savedgoalposition
JointDrive_set_goal_position(c, s, ccw, angle, trigger) ==
    decorator_error_handling(
        IF angle > a_max - a_offset THEN [c EXCEPT !.ret = RetTrue]
        ELSE IF angle < a_min - a_offset THEN [c EXCEPT !.ret = RetTrue]
        ELSE set_goal_position(
                c, s, convert_angle_to_ticks(angle, ccw, a_offset), trigger))

\* JointDrive.set_desired_angle_speed, decorated
set_desired_angle_speed(c0, s, ccw, angle, speed, trigger) ==
    decorator_error_handling(
        LET c == [c0 EXCEPT !.joints[s].savedgoalposition = angle] IN
        IF angle > a_max - a_offset THEN [c EXCEPT !.ret = RetTrue]
        ELSE IF angle < a_min - a_offset THEN [c EXCEPT !.ret = RetTrue]
        ELSE IF SpeedInvalid(speed) THEN [c EXCEPT !.ret = RetTrue]
        ELSE set_goal_pos_speed(
                c, s, convert_angle_to_ticks(angle, ccw, a_offset),
                convert_percent_speed_to_ticks(speed), trigger))

\* one pass of the loop of set_angle_speed_sync over the i-th entry
\* [joint, angle, speed] of the caller's lists: data[1] is stored in the
\* attribute savedGoalPosition of the joint, the first conversion is looked
\* up as __convert_angle_to_ticks and assigned to data[1], the second is
\* looked up as ___convert_percent_speed_to_ticks
convert_entry(c0, i) ==
    LET data == c0.lists[i]
        c == [c0 EXCEPT !.joints[data.id].savedGoalPosition =
                            <<data.vals[1]>>]
    IN IF Len(data.vals) < 1 THEN Raise(c0, "IndexError")
       ELSE IF Len(data.vals) + 1 > 3 THEN new_MemoryAccessError(c)
       ELSE IF Len(data.vals) + 1 < 3 THEN new_PacketTypeError(c)
       ELSE LET c1 == getattr(c, "_JointDrive__convert_angle_to_ticks")
                c2 == [c1 EXCEPT !.lists[i].vals[1] =
                            convert_angle_to_ticks(data.vals[1], data.ccw,
                                                   a_offset)]
                c3 == getattr(c2,
                              "_JointDrive___convert_percent_speed_to_ticks")
            IN IF c1.exc # NoExc THEN c1
               ELSE IF c3.exc # NoExc THEN c3
               ELSE [c3 EXCEPT !.lists[i].vals[2] =
                            convert_percent_speed_to_ticks(data.vals[2])]

\* the loop of set_angle_speed_sync, ended by the first exception
RECURSIVE convert_entries(_, _)
convert_entries(c, i) ==
    IF i > Len(c.lists) THEN c
    ELSE LET c1 == convert_entry(c, i)
         IN IF c1.exc # NoExc THEN c1
            ELSE convert_entries(c1, i + 1)

\* JointDrive.set_angle_speed_sync, decorated; packet: the caller's lists
set_angle_speed_sync(c, packet) ==
    decorator_error_handling(
        IF Len(packet) = 0 THEN [c EXCEPT !.ret = RetInt(-1)]
        ELSE LET c1 == convert_entries([c EXCEPT !.lists = packet], 1)
             IN IF c1.exc # NoExc THEN c1
                ELSE [sync_write(c1, GOAL_POSITION, c1.lists)
                        EXCEPT !.ret = RetNone])

---------------------------------------------------------------------------

(* What the serial line delivers *)

ByteLists(n) == [1..n -> DataBytes]

\* intact status packets with n parameters answering session s
Intact(s, n) == {StatusPkt(s, e, p) : e \in ErrBytes, p \in ByteLists(n)}

\* replies to a read of n bytes: an intact packet, nothing, or a short one
BusReplies(s, n) ==
    Intact(s, n - STATUS_PACKET_BASE_LENGTH)
        \cup {<<>>, <<255, 255, s, 2, 0>>}

\* one byte of a packet changed on the line
Alter(p, i) == [p EXCEPT ![i] = (@ + 1) % 256]

\* replies to a read request for n bytes: a packet of any device, intact,
\* with one byte changed, or cut short by the read timeout
RxReplies(n) ==
    LET pkts == UNION {Intact(src, n) : src \in Ids}
    IN pkts
       \cup {Alter(p, i) : p \in pkts, i \in 1..(n + STATUS_PACKET_BASE_LENGTH)}
       \cup {Take(p, k) : p \in pkts,
                          k \in 0..(n + STATUS_PACKET_BASE_LENGTH - 1)}

---------------------------------------------------------------------------
(* The calls *)

NoOp == [name |-> "init", id |-> 0, level |-> 0, reg |-> 0, n |-> 0,
         data |-> <<>>, trigger |-> FALSE, packet |-> <<>>,
         angle |-> 0, speed |-> 0, ccw |-> FALSE, offset |-> 0]

\* a call starts when the caller is between calls and ends in a state that
\* holds what the call did
Noting(done, o, w) ==
    /\ op = NoOp
    /\ \E c \in {done} :
        /\ return_level' = c.rl
        /\ err' = c.err
        /\ op' = o
        /\ io' = c.io
        /\ outcome' = IF c.exc # NoExc
                      THEN [kind |-> "raise", exc |-> c.exc, data |-> <<>>]
                      ELSE [kind |-> c.ret.kind, exc |-> NoExc,
                            data |-> c.ret.data]
        /\ logged' = c.logged
        /\ printed' = c.printed
        /\ decoded' = c.decoded
        /\ line' = IF c.dev.on THEN c.rx ELSE line
        /\ regs' = c.dev.tab
        /\ want' = w
        /\ joints' = c.joints
        /\ lists' = c.lists
        /\ pending' = c.dev.held
        /\ joint_drive_positions' = c.joint_drive_positions
        /\ UNCHANGED pc

Commit(done, o) == Noting(done, o, want)

\* the attributes JointDrive.__init__ sets that later calls assign; the
\* attribute savedGoalPosition does not exist until it is assigned
NewJoint == [savedgoalposition |-> 0, savedGoalPosition |-> <<>>]

\* nothing written yet to the registers the caller reads back, no goal
\* angle commanded yet
Unwritten == [delay |-> -1, position |-> -1, speed |-> -1, level |-> -1,
              goal |-> 0]

\* a caller that is not inside a call
Idle == [at |-> "idle", n |-> 0]

Init ==
    /\ return_level = [s \in Ids |-> 2]
    /\ err = [s \in Ids |-> 0]
    /\ op = NoOp
    /\ io = <<>>
    /\ outcome = [kind |-> "init", exc |-> NoExc, data |-> <<>>]
    /\ logged = {}
    /\ printed = FALSE
    /\ decoded = <<>>
    /\ pc = [s \in Ids |-> Idle]
    /\ line = <<>>
    /\ regs = [s \in Ids |-> FactoryTable]
    /\ want = [s \in Ids |-> Unwritten]
    /\ joints = [s \in Ids |-> NewJoint]
    /\ lists = <<>>
    /\ pending = [s \in Ids |-> <<>>]
    /\ joint_drive_positions = <<>>

Ping(id, got) ==
    Commit(ping(Enter(got), id),
           [NoOp EXCEPT !.name = "ping", !.id = id])

ReadBytes(s, register, count, got) ==
    Commit(request_n_byte(Enter(got), s, register, count),
           [NoOp EXCEPT !.name = "read_bytes", !.id = s,
                        !.level = return_level[s], !.reg = register,
                        !.n = count])

WriteBytes(s, register, data, trigger, got) ==
    Commit(write_n_byte_pkt(Enter(got), s, register, data, trigger, FALSE),
           [NoOp EXCEPT !.name = "write_bytes", !.id = s,
                        !.level = return_level[s], !.reg = register,
                        !.data = data, !.trigger = trigger])

WriteWord(s, register, data, trigger, got) ==
    Commit(write_n_word_pkt(Enter(got), s, register, data, trigger),
           [NoOp EXCEPT !.name = "write_word", !.id = s,
                        !.level = return_level[s], !.reg = register,
                        !.data = data, !.trigger = trigger])

SetReturnLevel(s, level, trigger, got) ==
    Commit(set_return_level(Enter(got), s, level, trigger),
           [NoOp EXCEPT !.name = "set_return_level", !.id = s,
                        !.level = return_level[s], !.reg = RETURN_LEVEL,
                        !.data = <<level>>, !.trigger = trigger])

Action(s, got) ==
    Commit(action(Enter(got), s),
           [NoOp EXCEPT !.name = "action", !.id = s,
                        !.level = return_level[s]])

ActionAll ==
    Commit(action_all(Enter(<<>>)),
           [NoOp EXCEPT !.name = "action_all", !.id = ID_BROADCAST])

SyncWrite(mem_address, packet) ==
    Commit(sync_write(Enter(<<>>), mem_address, packet),
           [NoOp EXCEPT !.name = "sync_write", !.id = ID_BROADCAST,
                        !.reg = mem_address, !.packet = packet])

\* the caller takes the result and goes on to its next call
NextCall ==
    /\ op # NoOp
    /\ op' = NoOp
    /\ io' = <<>>
    /\ outcome' = [kind |-> "init", exc |-> NoExc, data |-> <<>>]
    /\ logged' = {}
    /\ printed' = FALSE
    /\ decoded' = <<>>
    /\ lists' = <<>>
    /\ UNCHANGED <<return_level, err, pc, line, regs, want, joints, pending,
                   joint_drive_positions>>

---------------------------------------------------------------------------
(* Inputs *)

DataLists == UNION {[1..n -> DataBytes] : n \in 1..MaxData}
WordLists == [1..1 -> Words]

\* what arrives after a write or an action of session s
StatusReplies(s) ==
    IF return_level[s] = 2 THEN BusReplies(s, STATUS_PACKET_BASE_LENGTH)
    ELSE {<<>>}

Entries == {[id |-> i, vals |-> v] :
                i \in Ids, v \in UNION {[1..n -> SyncWords] : n \in 1..MaxValues}}

\* BigBatch devices with distinct ids, each [goal position, speed]
UniformBatch == [i \in 1..BigBatch |-> [id |-> i - 1, vals |-> <<513, 513>>]]

Batches ==
    UNION {[1..n -> Entries] : n \in 0..MaxDevices} \cup {UniformBatch}

---------------------------------------------------------------------------
(* The specifications *)

\* the calls a caller may make, over all inputs
CallPing ==
    /\ op = NoOp
    /\ \E id \in Ids :
        \E got \in BusReplies(id, STATUS_PACKET_BASE_LENGTH) : Ping(id, got)

CallReadBytes ==
    /\ op = NoOp
    /\ \E s \in Ids, r \in Registers, n \in 1..MaxCount :
        \E got \in BusReplies(s, STATUS_PACKET_BASE_LENGTH + n) :
            ReadBytes(s, r, n, got)

CallWriteBytes ==
    /\ op = NoOp
    /\ \E s \in Ids, r \in Registers, d \in DataLists, t \in BOOLEAN :
        \E got \in StatusReplies(s) : WriteBytes(s, r, d, t, got)

CallWriteWord ==
    /\ op = NoOp
    /\ \E s \in Ids, r \in Registers, d \in WordLists, t \in BOOLEAN :
        \E got \in StatusReplies(s) : WriteWord(s, r, d, t, got)

CallSetReturnLevel ==
    /\ op = NoOp
    /\ \E s \in Ids, l \in Levels, t \in BOOLEAN :
        \E got \in StatusReplies(s) : SetReturnLevel(s, l, t, got)

CallAction ==
    /\ op = NoOp
    /\ \E s \in Ids : \E got \in StatusReplies(s) : Action(s, got)

CallActionAll ==
    /\ op = NoOp
    /\ ActionAll

CallSyncWrite ==
    /\ op = NoOp
    /\ \E m \in Registers, b \in Batches : SyncWrite(m, b)

Next ==
    \/ CallPing
    \/ CallReadBytes
    \/ CallWriteBytes
    \/ CallWriteWord
    \/ CallSetReturnLevel
    \/ CallAction
    \/ CallActionAll
    \/ CallSyncWrite
    \/ NextCall

Spec == Init /\ [][Next]_vars

\* the receive path: read requests answered over a line that may change a
\* byte of the status packet or cut it short
CallReadBytesRx ==
    /\ op = NoOp
    /\ \E s \in Ids, r \in Registers, n \in 1..MaxCount :
        \E got \in RxReplies(n) : ReadBytes(s, r, n, got)

NextRx ==
    \/ CallReadBytesRx
    \/ NextCall

SpecRx == Init /\ [][NextRx]_vars

\* error decoding: the session of servo 1 gets a status packet with any
\* error byte after an action
CallActionDecode ==
    /\ op = NoOp
    /\ \E e \in 0..255 : Action(1, StatusPkt(1, e, <<>>))

NextDecode ==
    \/ CallActionDecode
    \/ NextCall

SpecDecode == Init /\ [][NextDecode]_vars

---------------------------------------------------------------------------
(* Properties *)

\* the status packet the last call read, and the bytes it asked for
Got(i) == io[i].pkt

WriteOps == {"write_bytes", "write_word", "set_return_level"}

\* the call read a whole status packet whose error byte is e
ConsumedError(e) ==
    \E i \in 1..Len(io) :
        /\ io[i].k = "read"
        /\ Len(Got(i)) >= 6
        /\ Got(i)[5] = e

\* C1: every frame handed to the transport by any operation starts with
\* 0xFF 0xFF and ends with a checksum byte c such that c is the bitwise
\* complement, within one byte, of the sum of the bytes from the id byte
\* through the last parameter byte (sum + c = 255 modulo 256).
C1_FramesChecksummed ==
    \A i \in 1..Len(io) :
        io[i].k = "write" =>
            LET p == io[i].pkt IN
            /\ Len(p) >= 6
            /\ p[1] = 255 /\ p[2] = 255
            /\ p[Len(p)] \in 0..255
            /\ (SumRange(p, 3, Len(p) - 1) + p[Len(p)]) % 256 = 255

\* a register write put a frame on the line whose byte sum exceeds one byte
C1_Witness ==
    /\ op.name = "write_bytes"
    /\ Len(io) >= 1
    /\ io[1].k = "write"
    /\ SumRange(io[1].pkt, 3, Len(io[1].pkt) - 1) > 255

\* C2: a register write made at status return level 2 is followed by exactly
\* one status read of 6 bytes whose error byte is decoded; a register write
\* made at level 0 or 1 performs no transport read.
C2_WriteStatusByLevel ==
    op.name \in WriteOps =>
        IF op.level = 2
        THEN /\ Len(io) = 2
             /\ io[1].k = "write"
             /\ io[2].k = "read"
             /\ io[2].n = 6
             /\ Len(Got(2)) >= 6 => decoded = <<Got(2)[5]>>
        ELSE /\ Len(io) = 1
             /\ io[1].k = "write"
             /\ decoded = <<>>

\* a word write at level 2 consumed a status packet with error byte 5
C2_Witness ==
    /\ op.name = "write_word"
    /\ op.level = 2
    /\ Len(io) = 2
    /\ Len(Got(2)) = 6
    /\ decoded = <<5>>

\* C3: read_bytes(register, count) performs exactly one transport write, of a
\* read-data frame carrying register and count, then exactly one transport
\* read asking for 6 + count bytes, at every status return level, and returns
\* the received bytes without the first five and the last one.
C3_ReadTransaction ==
    op.name = "read_bytes" =>
        /\ Len(io) = 2
        /\ io[1].k = "write"
        /\ Len(io[1].pkt) = 8
        /\ io[1].pkt[3] = op.id
        /\ io[1].pkt[5] = 2
        /\ io[1].pkt[6] = op.reg
        /\ io[1].pkt[7] = op.n
        /\ io[2].k = "read"
        /\ io[2].n = 6 + op.n
        /\ outcome.kind = "list"
        /\ Len(outcome.data) = (IF Len(Got(2)) > 6 THEN Len(Got(2)) - 6 ELSE 0)
        /\ \A j \in 1..Len(outcome.data) : outcome.data[j] = Got(2)[5 + j]

\* a session at return level 0 read two bytes and got both
C3_Witness ==
    /\ op.name = "read_bytes"
    /\ op.level = 0
    /\ op.n = 2
    /\ Len(io) = 2
    /\ Len(outcome.data) = 2

\* the faults whose bit is set in error byte e
FaultsOf(e) == {err_lst[b + 1] : b \in {x \in 0..6 : Bit(e, x) = 1}}

\* C4: decoding an error byte surfaces exactly the faults whose bit is set in
\* it: every set bit of bits 0..6 is reported, no other fault is, bit 7
\* reports nothing and 0 reports no fault.
C4_EveryFaultSurfaced ==
    \A e \in 0..255 :
        (op.name = "action" /\ ConsumedError(e)) => logged = FaultsOf(e)

\* C5: a read, a register write or an action that consumes a status packet
\* with a non-zero error byte hands the fault to its caller as an error and
\* does not return normally.
C5_FaultReachesCaller ==
    (/\ op.name \in WriteOps \cup {"read_bytes", "action"}
     /\ \E e \in 1..255 : ConsumedError(e))
        => outcome.kind = "raise"

\* the checksum byte of a whole packet does not match its bytes
ChecksumMismatch(p) ==
    (SumRange(p, 3, Len(p) - 1) + p[Len(p)]) % 256 # 255

\* C6: a received status packet of the requested size whose checksum does not
\* match its bytes (one byte between id and last parameter was altered) makes
\* read_bytes report a checksum mismatch instead of returning the payload.
C6_ChecksumMismatchReported ==
    (/\ op.name = "read_bytes"
     /\ Len(Got(2)) = io[2].n
     /\ ChecksumMismatch(Got(2)))
        => outcome.kind = "raise"

\* the header is not 0xFF 0xFF, or the length byte or the size is wrong
Malformed(p, n) ==
    \/ Len(p) < n
    \/ p[1] # 255
    \/ p[2] # 255
    \/ p[4] # Len(p) - 4

\* C7: a received status packet with a wrong header, a length byte that does
\* not match the bytes received, or fewer bytes than requested, is rejected:
\* read_bytes fails and returns no payload.
C7_MalformedRejected ==
    (op.name = "read_bytes" /\ Malformed(Got(2), io[2].n))
        => outcome.kind = "raise"

\* C8: a status packet from any source id with error byte 0 and count
\* parameters, framed with the checksum rule and delivered intact, is decoded
\* by read_bytes to exactly its parameters, in wire order.
C8_RoundTrip ==
    op.name = "read_bytes" =>
        \A src \in Ids, params \in ByteLists(op.n) :
            Got(2) = StatusPkt(src, 0, params) =>
                /\ outcome.kind = "list"
                /\ outcome.data = params

\* session 1 read the two parameters 0, 255 framed by servo 2
C8_Witness ==
    /\ op.name = "read_bytes"
    /\ op.id = 1
    /\ op.n = 2
    /\ Got(2) = StatusPkt(2, 0, <<0, 255>>)
    /\ outcome.data = <<0, 255>>

\* the entries of a batch do not all carry the same number of values
Uneven(packet) ==
    \E i, j \in 1..Len(packet) : Len(packet[i].vals) # Len(packet[j].vals)

\* C9: a sync-write batch of two or more devices whose entries do not all
\* carry the same number of values fails (an exception reaches the caller, or
\* at least an error is signalled) and performs zero transport writes.
C9_UnevenBatchRejected ==
    (op.name = "sync_write" /\ Len(op.packet) >= 2 /\ Uneven(op.packet))
        => /\ outcome.kind = "raise" \/ printed
           /\ io = <<>>

\* every entry carries the same number v >= 1 of values
WellFormed(packet) ==
    /\ Len(packet) >= 1
    /\ Len(packet[1].vals) >= 1
    /\ ~Uneven(packet)

\* the length byte (2v + 1) * N + 4 of the sync frame for a batch
SyncLength(packet) == (2 * Len(packet[1].vals) + 1) * Len(packet) + 4

\* exactly one frame written, to id 254 with instruction 0x83; nothing read
OneSyncFrame ==
    /\ Len(io) = 1
    /\ io[1].k = "write"
    /\ io[1].pkt[3] = 254
    /\ io[1].pkt[5] = 131

\* C10 as stated: a sync-write of any well-formed batch performs exactly one
\* transport write, of one frame to the broadcast id 254 with instruction
\* 0x83, and no transport read, whatever the sessions' return levels.
C10_AnyBatchOneFrame ==
    (op.name = "sync_write" /\ WellFormed(op.packet)) => OneSyncFrame

\* C10, amended: a sync-write of a well-formed batch whose frame length
\* (2v + 1) * N + 4 fits in one byte performs exactly one transport write, of
\* one frame to the broadcast id 254 with instruction 0x83, and no transport
\* read, whatever the sessions' return levels.
C10_FittingBatchOneFrame ==
    (/\ op.name = "sync_write"
     /\ WellFormed(op.packet)
     /\ SyncLength(op.packet) <= 255)
        => OneSyncFrame

\* two devices, one of them at return level 0, got their values in one frame
C10_Witness ==
    /\ op.name = "sync_write"
    /\ Len(op.packet) = 2
    /\ WellFormed(op.packet)
    /\ op.packet[1].id # op.packet[2].id
    /\ return_level[op.packet[1].id] = 0
    /\ return_level[op.packet[2].id] = 2
    /\ OneSyncFrame

---------------------------------------------------------------------------
(* Sync-write framing: batches of devices that all carry the same number   *)
(* of values, the values taken from both sides of the one-byte boundary    *)

FrameWords == <<0, 255, 256, 1023>>

\* v values: the words of FrameWords in order, starting from the k-th
WordRun(v, k) == [j \in 1..v |-> FrameWords[((k + j) % Len(FrameWords)) + 1]]

UniformEntries(v) ==
    {[id |-> i, vals |-> WordRun(v, k)] : i \in Ids, k \in 1..Len(FrameWords)}

UniformBatches ==
    UNION {[1..n -> UniformEntries(v)] : n \in 1..MaxDevices,
                                         v \in 1..MaxValues}

CallSyncWriteUniform ==
    /\ op = NoOp
    /\ \E m \in Registers, b \in UniformBatches : SyncWrite(m, b)

NextSync ==
    \/ CallSyncWriteUniform
    \/ NextCall

SpecSync == Init /\ [][NextSync]_vars

\* the frames the last call wrote
Frames == {io[i].pkt : i \in {x \in 1..Len(io) : io[x].k = "write"}}

\* C11: for every sync-write batch of N >= 1 devices each carrying v values,
\* the transmitted frame's length byte is (2v + 1) * N + 4, its per-device
\* data-length parameter is 2v, and the frame has exactly length + 4 bytes.
C11_SyncLengthFields ==
    (op.name = "sync_write" /\ WellFormed(op.packet)) =>
        \A p \in Frames :
            LET N == Len(op.packet)
                v == Len(op.packet[1].vals)
            IN /\ p[4] = (2 * v + 1) * N + 4
               /\ p[7] = 2 * v
               /\ Len(p) = p[4] + 4

\* two devices with three values each were framed
C11_Witness ==
    /\ op.name = "sync_write"
    /\ Len(op.packet) = 2
    /\ Len(op.packet[1].vals) = 3
    /\ Len(op.packet[2].vals) = 3
    /\ Cardinality(Frames) = 1
    /\ \A p \in Frames : p[4] = 18 /\ Len(p) = 22

\* C12: in a sync-write frame the per-device blocks appear in the order of
\* the batch, and each block is the device id followed, for each value in
\* order, by the value's low byte and then its high byte, also for values
\* below 256.
C12_SyncBlocksLittleEndian ==
    (op.name = "sync_write" /\ WellFormed(op.packet)) =>
        \A p \in Frames :
            LET v == Len(op.packet[1].vals) IN
            \A i \in 1..Len(op.packet) :
                LET base == 7 + (i - 1) * (2 * v + 1) IN
                /\ p[base + 1] = op.packet[i].id
                /\ \A j \in 1..v :
                    /\ p[base + 2 * j] = op.packet[i].vals[j] % 256
                    /\ p[base + 2 * j + 1] =
                            (op.packet[i].vals[j] \div 256) % 256

\* device 2 then device 1 were framed, a value below 256 and one above among
\* the values of the first block
C12_Witness ==
    /\ op.name = "sync_write"
    /\ Len(op.packet) = 2
    /\ op.packet[1].id = 2
    /\ op.packet[2].id = 1
    /\ op.packet[1].vals = <<255, 256>>
    /\ Cardinality(Frames) = 1
    /\ \A p \in Frames : SubSeq(p, 8, 12) = <<2, 255, 0, 0, 1>>

---------------------------------------------------------------------------
(* The joint interface *)

JointSetGoalPosition(s, ccw, angle, trigger, got) ==
    Commit(JointDrive_set_goal_position(Enter(got), s, ccw, angle, trigger),
           [NoOp EXCEPT !.name = "joint_set_goal_position", !.id = s,
                        !.level = return_level[s], !.ccw = ccw,
                        !.angle = angle, !.trigger = trigger])

SetDesiredAngleSpeed(s, ccw, angle, speed, trigger, got) ==
    Commit(set_desired_angle_speed(Enter(got), s, ccw, angle, speed, trigger),
           [NoOp EXCEPT !.name = "set_desired_angle_speed", !.id = s,
                        !.level = return_level[s], !.ccw = ccw,
                        !.angle = angle, !.speed = speed,
                        !.trigger = trigger])

SetAngleSpeedSync(packet) ==
    Commit(set_angle_speed_sync(Enter(<<>>), packet),
           [NoOp EXCEPT !.name = "set_angle_speed_sync",
                        !.id = ID_BROADCAST, !.reg = GOAL_POSITION,
                        !.packet = packet])

\* angles on both sides of the limits of -150 and 150 degrees
Angles == {-151 * Degree, -150 * Degree, 0, 150 * Degree, 151 * Degree}

\* speeds on both sides of the valid range
Speeds == {-1, 70, 114}

\* what arrives during a call that makes two write transactions
TwoStatusReplies(s) == {a \o b : a, b \in StatusReplies(s)}

\* angles of the entries of a batch: one within, one beyond the limits
SyncAngles == {0, -151 * Degree}

\* [joint, angle, speed] entries, and one entry too short and one too long
JointEntries ==
    {[id |-> i, ccw |-> d, vals |-> <<a, 70>>] :
        i \in Ids, d \in BOOLEAN, a \in SyncAngles}
    \cup {[id |-> 1, ccw |-> FALSE, vals |-> <<0>>],
          [id |-> 1, ccw |-> FALSE, vals |-> <<0, 70, 70>>]}

JointBatches == UNION {[1..n -> JointEntries] : n \in 0..MaxDevices}

CallJointSetGoalPosition ==
    /\ op = NoOp
    /\ \E s \in Ids, d \in BOOLEAN, a \in Angles, t \in BOOLEAN :
        \E got \in StatusReplies(s) : JointSetGoalPosition(s, d, a, t, got)

CallSetDesiredAngleSpeed ==
    /\ op = NoOp
    /\ \E s \in Ids, d \in BOOLEAN, a \in Angles, v \in Speeds,
          t \in BOOLEAN :
        \E got \in TwoStatusReplies(s) :
            SetDesiredAngleSpeed(s, d, a, v, t, got)

CallSetAngleSpeedSync ==
    /\ op = NoOp
    /\ \E b \in JointBatches : SetAngleSpeedSync(b)

NextJoint ==
    \/ CallJointSetGoalPosition
    \/ CallSetDesiredAngleSpeed
    \/ CallSetAngleSpeedSync
    \/ NextCall

SpecJoint == Init /\ [][NextJoint]_vars

\* the angle is within the limits of a joint built with the defaults
WithinLimits(angle) ==
    /\ angle <= a_max - a_offset
    /\ angle >= a_min - a_offset

\* every entry of a joint batch is [joint, angle, speed]
JointWellFormed(packet) ==
    /\ Len(packet) >= 1
    /\ \A i \in 1..Len(packet) : Len(packet[i].vals) = 2

\* C13: set_angle_speed_sync called with a non-empty batch of well-formed
\* [joint, angle, speed] entries, the angles within the joints' limits,
\* transmits exactly one sync-write frame at the goal-position register.
C13_SyncSetterTransmits ==
    (/\ op.name = "set_angle_speed_sync"
     /\ JointWellFormed(op.packet)
     /\ \A i \in 1..Len(op.packet) : WithinLimits(op.packet[i].vals[1]))
        => /\ OneSyncFrame
           /\ io[1].pkt[6] = GOAL_POSITION

\* the angle-bearing setters
AngleSetters ==
    {"joint_set_goal_position", "set_desired_angle_speed",
     "set_angle_speed_sync"}

\* the call asked for an angle beyond a limit of a joint
AngleRefusable ==
    \/ /\ op.name \in {"joint_set_goal_position", "set_desired_angle_speed"}
       /\ ~WithinLimits(op.angle)
    \/ /\ op.name = "set_angle_speed_sync"
       /\ JointWellFormed(op.packet)
       /\ \E i \in 1..Len(op.packet) : ~WithinLimits(op.packet[i].vals[1])

\* C14: every angle-bearing setter refuses an angle above a_max - offset or
\* below a_min - offset: the caller is told (an exception or a return value
\* other than that of an accepted call) and nothing is written.
C14_AngleOutOfRangeRefused ==
    AngleRefusable =>
        /\ outcome.kind \in {"raise", "True"}
        /\ io = <<>>

---------------------------------------------------------------------------
(* Action frames *)

\* the call wrote exactly one frame, a parameterless action frame to id_
OneActionFrame(id_) ==
    /\ Cardinality({i \in 1..Len(io) : io[i].k = "write"}) = 1
    /\ io[1].k = "write"
    /\ Len(io[1].pkt) = 6
    /\ io[1].pkt[3] = id_
    /\ io[1].pkt[4] = 2
    /\ io[1].pkt[5] = 5

\* C15: action() transmits exactly one parameterless action frame (length
\* byte 2, instruction 5) addressed to the session's own id, action_all()
\* transmits exactly one such frame addressed to the broadcast id 254, and
\* both complete without raising.
C15_ActionFrames ==
    /\ op.name = "action" =>
            (OneActionFrame(op.id) /\ outcome.kind # "raise")
    /\ op.name = "action_all" =>
            (OneActionFrame(ID_BROADCAST) /\ outcome.kind # "raise")

---------------------------------------------------------------------------
(* The setters of ServoAx12a *)

SetReturnDelay(s, delay, trigger, got) ==
    Commit(set_return_delay(Enter(got), s, delay, trigger),
           [NoOp EXCEPT !.name = "set_return_delay", !.id = s,
                        !.level = return_level[s], !.reg = RETURN_DELAY_TIME,
                        !.data = <<delay>>, !.trigger = trigger])

SetGoalPosition(s, position, trigger, got) ==
    Commit(set_goal_position(Enter(got), s, position, trigger),
           [NoOp EXCEPT !.name = "set_goal_position", !.id = s,
                        !.level = return_level[s], !.reg = GOAL_POSITION,
                        !.data = <<position>>, !.trigger = trigger])

SetMovingSpeed(s, speed, trigger, got) ==
    Commit(set_moving_speed(Enter(got), s, speed, trigger),
           [NoOp EXCEPT !.name = "set_moving_speed", !.id = s,
                        !.level = return_level[s], !.reg = MOVING_SPEED,
                        !.data = <<speed>>, !.trigger = trigger])

SetGoalPosSpeed(s, position, speed, trigger, got) ==
    Commit(set_goal_pos_speed(Enter(got), s, position, speed, trigger),
           [NoOp EXCEPT !.name = "set_goal_pos_speed", !.id = s,
                        !.level = return_level[s], !.reg = GOAL_POSITION,
                        !.data = <<position, speed>>, !.trigger = trigger])

SetCwAngleLimit(s, angle, trigger, got) ==
    Commit(set_cw_angle_limit(Enter(got), s, angle, trigger),
           [NoOp EXCEPT !.name = "set_cw_angle_limit", !.id = s,
                        !.level = return_level[s], !.reg = CW_ANGLE_LIMIT,
                        !.data = <<angle>>, !.trigger = trigger])

SetCcwAngleLimit(s, angle, trigger, got) ==
    Commit(set_ccw_angle_limit(Enter(got), s, angle, trigger),
           [NoOp EXCEPT !.name = "set_ccw_angle_limit", !.id = s,
                        !.level = return_level[s], !.reg = CCW_ANGLE_LIMIT,
                        !.data = <<angle>>, !.trigger = trigger])

\* register values in ticks, and return delay values
Ticks == {0, 1023}
Delays == {10, 254}

CallSetReturnDelay ==
    /\ op = NoOp
    /\ \E s \in Ids, d \in Delays, t \in BOOLEAN :
        \E got \in StatusReplies(s) : SetReturnDelay(s, d, t, got)

CallSetGoalPosition ==
    /\ op = NoOp
    /\ \E s \in Ids, p \in Ticks, t \in BOOLEAN :
        \E got \in StatusReplies(s) : SetGoalPosition(s, p, t, got)

CallSetMovingSpeed ==
    /\ op = NoOp
    /\ \E s \in Ids, v \in Ticks, t \in BOOLEAN :
        \E got \in StatusReplies(s) : SetMovingSpeed(s, v, t, got)

CallSetGoalPosSpeed ==
    /\ op = NoOp
    /\ \E s \in Ids, p \in Ticks, v \in Ticks, t \in BOOLEAN :
        \E got \in TwoStatusReplies(s) : SetGoalPosSpeed(s, p, v, t, got)

CallSetCwAngleLimit ==
    /\ op = NoOp
    /\ \E s \in Ids, a \in Ticks, t \in BOOLEAN :
        \E got \in StatusReplies(s) : SetCwAngleLimit(s, a, t, got)

CallSetCcwAngleLimit ==
    /\ op = NoOp
    /\ \E s \in Ids, a \in Ticks, t \in BOOLEAN :
        \E got \in StatusReplies(s) : SetCcwAngleLimit(s, a, t, got)

NextServo ==
    \/ CallSetReturnDelay
    \/ CallSetReturnLevel
    \/ CallSetGoalPosition
    \/ CallSetMovingSpeed
    \/ CallSetGoalPosSpeed
    \/ CallSetCwAngleLimit
    \/ CallSetCcwAngleLimit
    \/ NextCall

SpecServo == Init /\ [][NextServo]_vars

Setters ==
    {"set_return_delay", "set_return_level", "set_goal_position",
     "set_moving_speed", "set_goal_pos_speed", "set_cw_angle_limit",
     "set_ccw_angle_limit"}

\* C16: the immediate / buffered flag means the same on every write path:
\* trigger = True always produces the immediate write instruction (code 3)
\* and trigger = False the buffered write instruction (code 4), in every
\* frame the setter writes.
C16_TriggerFlagConsistent ==
    op.name \in Setters =>
        /\ Frames # {}
        /\ \A p \in Frames : p[5] = (IF op.trigger THEN 3 ELSE 4)

\* a limit setter, immediate by default, was called with trigger = False
C16_Witness ==
    /\ op.name = "set_cw_angle_limit"
    /\ ~op.trigger
    /\ \E p \in Frames : p[5] = 4 /\ p[6] = CW_ANGLE_LIMIT

---------------------------------------------------------------------------
(* Ping *)

\* one ping frame written, one read of 6 bytes, the bytes read returned and
\* no fault reported
PingDone ==
    /\ Len(io) = 2
    /\ io[1].k = "write"
    /\ io[1].pkt = <<255, 255, op.id, 2, 1, (255 - (op.id + 3)) % 256>>
    /\ io[2].k = "read"
    /\ io[2].n <= 6
    /\ Len(Got(2)) <= 6
    /\ outcome.kind = "list"
    /\ outcome.data = Got(2)
    /\ logged = {}
    /\ ~printed
    /\ decoded = <<>>

\* C17: ping(id) transmits exactly one 6-byte ping frame and performs exactly
\* one transport read of at most 6 bytes; it returns the bytes read (an empty
\* list when the device does not answer), never reports a fault whatever the
\* reply's error byte, and changes no session's last error or status return
\* level.
C17_PingOnlyProbes ==
    /\ [](op.name = "ping" => PingDone)
    /\ [][op'.name = "ping" => UNCHANGED <<return_level, err>>]_vars

\* a device answered a ping with error byte 5 and the session of that id
\* still holds last error 0
C17_Witness ==
    /\ op.name = "ping"
    /\ Len(Got(2)) = 6
    /\ Got(2)[5] = 5
    /\ outcome.data = Got(2)
    /\ err[op.id] = 0

---------------------------------------------------------------------------
(* Two callers, one per session, running _request_n_byte at the same time. *)
(* The serial port is the class attribute both sessions use; a caller is    *)
(* switched out between its transport calls, and each transport call is     *)
(* one step.                                                                *)

MaxBusCalls == 3    \* transport calls after which no new request starts

\* the first half of _request_n_byte: __write_read_data_pkt writes the
\* request frame; the servo then answers, or stays silent
RequestStep(s, register, dt_len, reply) ==
    /\ pc[s] = Idle
    /\ Len(io) < MaxBusCalls
    /\ \E c \in {write_read_data_pkt(Enter(line), s, register, dt_len)} :
        /\ c.exc = NoExc
        /\ io' = io \o c.io
        /\ line' = c.rx \o reply
    /\ pc' = [pc EXCEPT ![s] = [at |-> "sent", n |-> dt_len]]
    /\ UNCHANGED <<return_level, err, op, outcome, logged, printed, decoded,
                   regs, want, joints, lists, pending,
                   joint_drive_positions>>

\* the second half: __read_status_pkt reads from the port, the payload is
\* returned to the caller
ReplyStep(s) ==
    /\ pc[s].at = "sent"
    /\ \E c \in {read_status_pkt(Enter(line), s,
                                 STATUS_PACKET_BASE_LENGTH + pc[s].n)} :
        /\ io' = io \o c.io
        /\ line' = c.rx
        /\ err' = c.err
        /\ logged' = c.logged
        /\ printed' = c.printed
        /\ decoded' = c.decoded
        /\ outcome' = [kind |-> "list", exc |-> NoExc,
                       data |-> Payload(c.ret.data)]
    /\ pc' = [pc EXCEPT ![s] = Idle]
    /\ UNCHANGED <<return_level, op, regs, want, joints, lists, pending,
                   joint_drive_positions>>

Request ==
    \E s \in Ids, r \in Registers, n \in 1..MaxCount :
        \E reply \in Intact(s, n) \cup {<<>>} : RequestStep(s, r, n, reply)

Reply == \E s \in Ids : ReplyStep(s)

NextConcurrent ==
    \/ Request
    \/ Reply

SpecConcurrent == Init /\ [][NextConcurrent]_vars

\* the sessions that have written a request and not yet read its status
InFlight == {s \in Ids : pc[s].at = "sent"}

\* C18: when two sessions sharing the one transport are driven by concurrent
\* callers, at most one transaction is in flight at any time: between a
\* session's frame write and the completion of its status read no other
\* session writes a frame or reads bytes.
C18_OneTransactionInFlight ==
    /\ [](Cardinality(InFlight) <= 1)
    /\ [][\A s \in Ids :
            (pc[s].at = "sent" /\ io' # io) => pc'[s] = Idle]_vars

---------------------------------------------------------------------------
(* No retries *)

\* the reply read by transport call i is empty, short, or reports a fault
BadReply(i) ==
    /\ io[i].k = "read"
    /\ \/ Len(Got(i)) < io[i].n
       \/ Len(Got(i)) >= 5 /\ Got(i)[5] # 0

\* C19: no operation retries: an instruction frame is written to the
\* transport once per call, every read follows the write of its own frame,
\* a reply that is empty, short or carries a non-zero error byte is followed
\* by no further write or read, and a call makes at most two transport calls
\* even when the device never answers.
C19_NoRetry ==
    /\ Len(io) <= 2
    /\ Cardinality({i \in 1..Len(io) : io[i].k = "write"}) <= 1
    /\ op.name \in WriteOps \cup {"ping", "read_bytes", "action"} =>
            (Len(io) >= 1 /\ io[1].k = "write")
    /\ \A i \in 1..Len(io) :
        /\ io[i].k = "read" => (i > 1 /\ io[i - 1].k = "write")
        /\ BadReply(i) => i = Len(io)

\* a register write at level 2 got no answer and ended after one write and
\* one read
C19_Witness ==
    /\ op.name = "write_bytes"
    /\ op.level = 2
    /\ Len(io) = 2
    /\ Got(2) = <<>>
    /\ outcome.kind = "None"

---------------------------------------------------------------------------
(* No reply *)

\* the status read of the call returned fewer than 6 bytes
NoReply ==
    \E i \in 1..Len(io) :
        /\ io[i].k = "read"
        /\ Len(Got(i)) < STATUS_PACKET_BASE_LENGTH

\* C20: when the status read of a transaction returns fewer than 6 bytes
\* (timeout, short or empty buffer) the transaction is treated as "no reply":
\* no device fault is logged or reported for it, whatever error bytes the
\* earlier transactions of the session received.
C20_NoReplyNoFault ==
    (op.name \in WriteOps \cup {"read_bytes", "action"} /\ NoReply)
        => /\ logged = {}
           /\ ~printed
           /\ outcome.kind # "raise"

---------------------------------------------------------------------------
(* Faults stay with their session *)

\* the operations made on behalf of one session
SessionOps == WriteOps \cup {"read_bytes", "action"}

\* C21: a status packet with a non-zero error byte consumed by the session
\* of one device leaves the last error and the status return level of every
\* other session unchanged, and a later operation of another session reports
\* a fault only for an error byte of its own.
C21_FaultStaysWithSession ==
    /\ [][\A s \in Ids :
            (op'.name \in SessionOps /\ op'.id # s) =>
                (err'[s] = err[s] /\ return_level'[s] = return_level[s])]_vars
    /\ [](op.name \in SessionOps =>
            /\ \A i \in 1..Len(decoded) : decoded[i] = err[op.id]
            /\ (logged # {} \/ printed) => err[op.id] # 0)

\* session 1 holds error byte 5; session 2 then made a write, got a clean
\* status packet and reported nothing
C21_Witness ==
    /\ op.name \in WriteOps
    /\ op.id = 2
    /\ err[1] = 5
    /\ err[2] = 0
    /\ decoded = <<0>>
    /\ logged = {}
    /\ ~printed

---------------------------------------------------------------------------
(* The length byte *)

\* C22: in every transmitted instruction frame the length byte is the number
\* of parameter bytes plus 2, which is the frame size minus 4: 2 for ping and
\* action, 4 for a read request, len(data) + 3 for a write of len(data) bytes
\* at one register.
C22_LengthByte ==
    \A p \in Frames :
        /\ p[4] = Len(p) - 4
        /\ op.name \in {"ping", "action"} => p[4] = 2
        /\ op.name = "read_bytes" => p[4] = 4
        /\ op.name \in {"write_bytes", "set_return_level"} =>
                p[4] = Len(op.data) + 3
        /\ op.name = "write_word" => p[4] = 2 * Len(op.data) + 3

\* a write of two bytes at one register went out with length byte 5
C22_Witness ==
    /\ op.name = "write_bytes"
    /\ Len(op.data) = 2
    /\ \E p \in Frames : p[4] = 5 /\ Len(p) = 9

---------------------------------------------------------------------------
(* One word written end to end *)

\* session 2 at return level 2 was asked to write the word 512 at the goal
\* position, immediately
GoalWrite512 ==
    /\ op.name = "write_word"
    /\ op.id = 2
    /\ op.level = 2
    /\ op.reg = GOAL_POSITION
    /\ op.data = <<512>>
    /\ op.trigger

\* the status packet FF FF 02 02 00 FB of servo 2, without error
CleanStatus2 == <<255, 255, 2, 2, 0, 251>>

\* the call wrote one 9-byte frame with checksum byte cks, read the status,
\* and returned when the status was well-formed and without error
WroteNineBytes(cks) ==
    /\ Cardinality(Frames) = 1
    /\ \A p \in Frames : Len(p) = 9 /\ p[9] = cks
    /\ Len(io) = 2
    /\ io[2].k = "read"
    /\ Got(2) = CleanStatus2 => (outcome.kind = "None" /\ ~printed)

\* C23 as stated: for a session with id 2 and status return level 2,
\* write_word(GOAL_POSITION, [512], immediate) answered by a well-formed
\* zero-error status packet returns success and has transmitted exactly one
\* 9-byte frame whose checksum is the checksum rule applied to
\* (2, 5, 3, 0, 0, 0).
C23_ChecksumOfZeros ==
    GoalWrite512 => WroteNineBytes(255 - ((2 + 5 + 3 + 0 + 0 + 0) % 256))

\* C23, amended: the same call returns success and has transmitted exactly
\* one 9-byte frame whose checksum is the checksum rule applied to
\* (2, 5, 3, 30, 0, 2): id, length, instruction, the goal position register
\* 0x1E, and the low and high byte of 512.
C23_ChecksumOfFrame ==
    GoalWrite512 => WroteNineBytes(255 - ((2 + 5 + 3 + 30 + 0 + 2) % 256))

\* the frame FF FF 02 05 03 1E 00 02 D5 went out
C23_Witness ==
    /\ GoalWrite512
    /\ Len(io) = 2
    /\ Got(2) = CleanStatus2
    /\ outcome.kind = "None"
    /\ io[1].pkt = <<255, 255, 2, 5, 3, 30, 0, 2, 213>>

---------------------------------------------------------------------------
(* Words on the wire: a word is written with _write_n_word_pkt and the two  *)
(* data bytes of the frame are merged again the way the getters merge the   *)
(* two bytes of a reply                                                     *)

MaxWord == 65535    \* the largest word written

\* the word v written at the goal position, then merged from the frame
word_on_wire(c, s, v) ==
    LET c1 == write_n_word_pkt(c, s, GOAL_POSITION, <<v>>, TRUE)
        return_data == SubSeq(c1.io[1].pkt, 7, 8)
    IN IF c1.exc # NoExc THEN c1
       ELSE [c1 EXCEPT !.ret = RetInt(merge_two_bytes(return_data[2],
                                                       return_data[1]))]

WordOnWire(s, v) ==
    Commit(word_on_wire(Enter(<<>>), s, v),
           [NoOp EXCEPT !.name = "word_on_wire", !.id = s,
                        !.level = return_level[s], !.reg = GOAL_POSITION,
                        !.n = v, !.trigger = TRUE])

CallWordOnWire ==
    /\ op = NoOp
    /\ \E v \in 0..MaxWord : WordOnWire(1, v)

NextWord ==
    \/ CallWordOnWire
    \/ NextCall

SpecWord == Init /\ [][NextWord]_vars

\* C24: word values are little-endian on the wire and round-trip: for every
\* v in 0..65535 the frame carries the low byte v mod 256 before the high
\* byte v div 256, and the two bytes merged as high * 256 + low give v again.
C24_WordRoundTrip ==
    (op.name = "word_on_wire" /\ op.n \in 0..65535) =>
        /\ Cardinality(Frames) = 1
        /\ \A p \in Frames :
            /\ Len(p) = 9
            /\ p[7] = op.n % 256
            /\ p[8] = op.n \div 256
        /\ outcome.kind = "int"
        /\ outcome.data = <<op.n>>

\* the largest word went out as FF FF and came back as 65535
C24_Witness ==
    /\ op.name = "word_on_wire"
    /\ op.n = 65535
    /\ io[1].pkt[7] = 255
    /\ io[1].pkt[8] = 255
    /\ outcome.data = <<65535>>

---------------------------------------------------------------------------
(* Registers written and read back with the servos on the line             *)

\* the call record of a register call of session s
RegisterOp(name, s, register, data) ==
    [NoOp EXCEPT !.name = name, !.id = s, !.level = return_level[s],
                 !.reg = register, !.data = data, !.trigger = TRUE]

SetReturnDelayOnLine(s, delay) ==
    Noting(set_return_delay(EnterOnLine, s, delay, TRUE),
           RegisterOp("set_return_delay", s, RETURN_DELAY_TIME, <<delay>>),
           [want EXCEPT ![s].delay = delay])

SetGoalPositionOnLine(s, position) ==
    Noting(set_goal_position(EnterOnLine, s, position, TRUE),
           RegisterOp("set_goal_position", s, GOAL_POSITION, <<position>>),
           [want EXCEPT ![s].position = position])

SetMovingSpeedOnLine(s, speed) ==
    Noting(set_moving_speed(EnterOnLine, s, speed, TRUE),
           RegisterOp("set_moving_speed", s, MOVING_SPEED, <<speed>>),
           [want EXCEPT ![s].speed = speed])

SetGoalPosSpeedOnLine(s, position, speed) ==
    Noting(set_goal_pos_speed(EnterOnLine, s, position, speed, TRUE),
           RegisterOp("set_goal_pos_speed", s, GOAL_POSITION,
                      <<position, speed>>),
           [want EXCEPT ![s].position = position, ![s].speed = speed])

GetReturnDelay(s) ==
    Commit(get_return_delay(EnterOnLine, s),
           RegisterOp("get_return_delay", s, RETURN_DELAY_TIME, <<>>))

GetGoalPosition(s) ==
    Commit(get_goal_position(EnterOnLine, s),
           RegisterOp("get_goal_position", s, GOAL_POSITION, <<>>))

GetMovingSpeed(s) ==
    Commit(get_moving_speed(EnterOnLine, s),
           RegisterOp("get_moving_speed", s, MOVING_SPEED, <<>>))

GetGoalPosSpeed(s) ==
    Commit(get_goal_pos_speed(EnterOnLine, s),
           RegisterOp("get_goal_pos_speed", s, GOAL_POSITION, <<>>))

\* positions, speeds and delays written: both bytes of a word differ
WrittenTicks == {0, 256, 1023}
WrittenDelays == {0, 254}

CallSetReturnDelayOnLine ==
    /\ op = NoOp
    /\ \E s \in Ids, d \in WrittenDelays : SetReturnDelayOnLine(s, d)

CallSetGoalPositionOnLine ==
    /\ op = NoOp
    /\ \E s \in Ids, p \in WrittenTicks : SetGoalPositionOnLine(s, p)

CallSetMovingSpeedOnLine ==
    /\ op = NoOp
    /\ \E s \in Ids, v \in WrittenTicks : SetMovingSpeedOnLine(s, v)

CallSetGoalPosSpeedOnLine ==
    /\ op = NoOp
    /\ \E s \in Ids, p \in WrittenTicks, v \in WrittenTicks :
        SetGoalPosSpeedOnLine(s, p, v)

CallGetReturnDelay ==
    /\ op = NoOp
    /\ \E s \in Ids : GetReturnDelay(s)

CallGetGoalPosition ==
    /\ op = NoOp
    /\ \E s \in Ids : GetGoalPosition(s)

CallGetMovingSpeed ==
    /\ op = NoOp
    /\ \E s \in Ids : GetMovingSpeed(s)

CallGetGoalPosSpeed ==
    /\ op = NoOp
    /\ \E s \in Ids : GetGoalPosSpeed(s)

NextRegisters ==
    \/ CallSetReturnDelayOnLine
    \/ CallSetGoalPositionOnLine
    \/ CallSetMovingSpeedOnLine
    \/ CallSetGoalPosSpeedOnLine
    \/ CallGetReturnDelay
    \/ CallGetGoalPosition
    \/ CallGetMovingSpeed
    \/ CallGetGoalPosSpeed
    \/ NextCall

SpecRegisters == Init /\ [][NextRegisters]_vars

\* the getter handed a to its caller, nothing raised, nothing printed
Returned(kind, data) ==
    /\ outcome.kind = kind
    /\ outcome.data = data
    /\ ~printed

\* C25: against a fault-free servo that stores immediate writes in its
\* register table, after set_goal_position(p, True) get_goal_position()
\* returns p, after set_moving_speed(s, True) get_moving_speed() returns s,
\* after set_goal_pos_speed(p, s, True) get_goal_pos_speed() returns [p, s]
\* and after set_return_delay(delay, True) get_return_delay() returns delay,
\* in any order and after any number of earlier such operations.
C25_SetThenGet ==
    LET w == want[op.id]
    IN /\ (op.name = "get_goal_position" /\ w.position # -1)
            => Returned("int", <<w.position>>)
       /\ (op.name = "get_moving_speed" /\ w.speed # -1)
            => Returned("int", <<w.speed>>)
       /\ (op.name = "get_goal_pos_speed" /\ w.position # -1 /\ w.speed # -1)
            => Returned("list", <<w.position, w.speed>>)
       /\ (op.name = "get_return_delay" /\ w.delay # -1)
            => Returned("int", <<w.delay>>)

\* position 256 and speed 1023 were written to servo 1, other writes came
\* after on servo 2, and get_goal_pos_speed of servo 1 returns [256, 1023]
C25_Witness ==
    /\ op.name = "get_goal_pos_speed"
    /\ op.id = 1
    /\ want[1].position = 256
    /\ want[1].speed = 1023
    /\ want[2].position = 1023
    /\ want[1].delay = 254
    /\ regs[1][GOAL_POSITION] = 0
    /\ regs[1][GOAL_POSITION + 1] = 1
    /\ outcome.data = <<256, 1023>>

---------------------------------------------------------------------------
(* The status return level switched with the servos on the line            *)

SetReturnLevelOnLine(s, level) ==
    Noting(set_return_level(EnterOnLine, s, level, TRUE),
           RegisterOp("set_return_level", s, RETURN_LEVEL, <<level>>),
           [want EXCEPT ![s].level = level])

GetReturnLevel(s) ==
    Commit(get_return_level(EnterOnLine, s),
           RegisterOp("get_return_level", s, RETURN_LEVEL, <<>>))

\* the levels test_return_level switches between
WrittenLevels == {1, 2}

CallSetReturnLevelOnLine ==
    /\ op = NoOp
    /\ \E s \in Ids, l \in WrittenLevels : SetReturnLevelOnLine(s, l)

CallGetReturnLevel ==
    /\ op = NoOp
    /\ \E s \in Ids : GetReturnLevel(s)

NextLevel ==
    \/ CallSetReturnLevelOnLine
    \/ CallGetReturnLevel
    \/ CallSetReturnDelayOnLine
    \/ CallGetReturnDelay
    \/ NextCall

SpecLevel == Init /\ [][NextLevel]_vars

\* C26: for every sequence of set_return_level(L, True) calls with L in
\* {1, 2}, starting from the initial session level 2, a get_return_level()
\* that follows a call returns its L: the level switch neither loses the
\* reply of the next read nor leaves a stale status packet that is taken
\* for it (the input buffer is empty after every call).
C26_LevelSwitchReadsBack ==
    /\ (op.name = "get_return_level" /\ want[op.id].level # -1)
            => Returned("int", <<want[op.id].level>>)
    /\ line = <<>>

\* session 1 switched from level 2 to level 1 and read 1 back, while
\* session 2 has written level 2
C26_Witness ==
    /\ op.name = "get_return_level"
    /\ op.id = 1
    /\ want[1].level = 1
    /\ return_level[1] = 1
    /\ regs[1][RETURN_LEVEL] = 1
    /\ want[2].level = 2
    /\ outcome.data = <<1>>

---------------------------------------------------------------------------
(* A goal angle written and read back with the servos on the line          *)

\* JointDrive.get_goal_position
JointDrive_get_goal_position(c, s, ccw) ==
    LET c1 == get_goal_position(c, s)
    IN IF c1.exc # NoExc THEN c1
       ELSE [c1 EXCEPT !.ret = RetInt(convert_ticks_to_angle(c1.ret.data[1],
                                                             ccw, a_offset))]

\* joint.set_goal_position(angle, True) followed by
\* joint.get_goal_position(), as the tests of the joint do
set_get_goal_position(c, s, ccw, angle) ==
    LET c1 == JointDrive_set_goal_position(c, s, ccw, angle, TRUE)
    IN IF c1.exc # NoExc THEN c1
       ELSE JointDrive_get_goal_position(c1, s, ccw)

SetGetGoalPosition(s, ccw, angle) ==
    Commit(set_get_goal_position(EnterOnLine, s, ccw, angle),
           [NoOp EXCEPT !.name = "set_get_goal_position", !.id = s,
                        !.level = return_level[s], !.reg = GOAL_POSITION,
                        !.ccw = ccw, !.angle = angle, !.trigger = TRUE])

\* goal angles within the limits: both limits, the angles next to them,
\* whole ticks and angles between two ticks
GoalAngles ==
    {a_min - a_offset, a_min - a_offset + 1, -TickAngle - 1, -1, 0, 1,
     TickAngle - 1, TickAngle, 100 * Degree, a_max - a_offset - TickAngle,
     a_max - a_offset - 1, a_max - a_offset}

CallSetGetGoalPosition ==
    /\ op = NoOp
    /\ \E s \in Ids, d \in BOOLEAN, a \in GoalAngles :
        SetGetGoalPosition(s, d, a)

NextGoalAngle ==
    \/ CallSetGetGoalPosition
    \/ NextCall

SpecGoalAngle == Init /\ [][NextGoalAngle]_vars

\* the distance of two angles
Distance(a, b) == IF a >= b THEN a - b ELSE b - a

\* the angle read back lies within one tick of the angle written
ReadBackWithinTick ==
    /\ outcome.kind = "int"
    /\ Distance(outcome.data[1], op.angle) <= TickAngle

\* C27: for every angle within the joint's soft limits and both rotation
\* senses the angle converted to ticks and back differs from the angle by
\* at most one tick, so that a goal angle written through set_goal_position
\* reads back through get_goal_position within that tolerance, with
\* ccw=False and with ccw=True.
C27_GoalAngleReadsBack ==
    (op.name = "set_get_goal_position" /\ WithinLimits(op.angle))
        => ReadBackWithinTick

\* every goal angle but the upper limit of a reversed joint reads back
\* within one tick
GoalAngleBelowUpperLimit ==
    (/\ op.name = "set_get_goal_position"
     /\ WithinLimits(op.angle)
     /\ ~(op.ccw /\ op.angle = a_max - a_offset))
        => ReadBackWithinTick

\* the conversions alone keep every angle within one tick, the upper limit
\* of a reversed joint included
ConversionsWithinTick ==
    (op.name = "set_get_goal_position" /\ WithinLimits(op.angle))
        => Distance(convert_ticks_to_angle(
                        convert_angle_to_ticks(op.angle, op.ccw, a_offset),
                        op.ccw, a_offset),
                    op.angle) <= TickAngle

---------------------------------------------------------------------------
(* The conversions of angles, applied to angles and ticks of the whole      *)
(* range                                                                   *)

MaxTicks == 1023        \* the largest tick value converted
MaxDegrees == 150       \* the largest angle converted, in degrees

\* the record of a conversion
Conversion(name, ccw, offset) ==
    [NoOp EXCEPT !.name = name, !.ccw = ccw, !.offset = offset]

\* the state a conversion that returns r ends in
Converted(r) == [Enter(<<>>) EXCEPT !.ret = RetInt(r)]

AngleToTicks(angle, ccw, offset) ==
    Commit(Converted(convert_angle_to_ticks(angle, ccw, offset)),
           [Conversion("angle_to_ticks", ccw, offset) EXCEPT !.angle = angle])

TicksToAngle(ticks, ccw, offset) ==
    Commit(Converted(convert_ticks_to_angle(ticks, ccw, offset)),
           [Conversion("ticks_to_angle", ccw, offset) EXCEPT !.n = ticks])

\* the angle of a tick value converted to ticks again
TicksToAngleToTicks(ticks, ccw, offset) ==
    Commit(Converted(convert_angle_to_ticks(
                        convert_ticks_to_angle(ticks, ccw, offset),
                        ccw, offset)),
           [Conversion("ticks_to_angle_to_ticks", ccw, offset)
                EXCEPT !.n = ticks])

\* the offsets of joints: none, the zero position, a shifted zero position
Offsets == {0, a_offset, a_offset + 10 * Degree + 1}

\* angles of whole degrees and the angles next to them
ConvertedAngles ==
    {d * Degree + e : d \in (-MaxDegrees)..MaxDegrees, e \in {-1, 0, 1}}

CallAngleToTicks ==
    /\ op = NoOp
    /\ \E a \in ConvertedAngles, d \in BOOLEAN : AngleToTicks(a, d, a_offset)

CallTicksToAngle ==
    /\ op = NoOp
    /\ \E t \in 0..MaxTicks, d \in BOOLEAN, o \in Offsets :
        TicksToAngle(t, d, o)

CallTicksToAngleToTicks ==
    /\ op = NoOp
    /\ \E t \in 0..MaxTicks, d \in BOOLEAN, o \in Offsets :
        TicksToAngleToTicks(t, d, o)

NextAngle ==
    \/ CallAngleToTicks
    \/ CallTicksToAngle
    \/ CallTicksToAngleToTicks
    \/ NextCall

SpecAngle == Init /\ [][NextAngle]_vars

\* C28: ticks_to_angle is the inverse of angle_to_ticks: for every tick
\* value t in 0..1023, every offset and both rotation senses
\* angle_to_ticks(ticks_to_angle(t, r, o), r, o) = t; the reversal applied
\* on the read path undoes the reversal applied on the write path.
C28_TicksToAngleInverse ==
    (op.name = "ticks_to_angle_to_ticks" /\ op.n \in 0..1023)
        => outcome.data = <<op.n>>

\* without reversal every tick value comes back; with reversal every tick
\* value comes back one too small
TicksOffByOneReversed ==
    (op.name = "ticks_to_angle_to_ticks" /\ op.n \in 0..1023)
        => outcome.data = <<IF op.ccw THEN op.n - 1 ELSE op.n>>

\* r is an integer nearest to the angle x counted in ticks
Nearest(r, x) == 2 * Distance(r * TickAngle, x) <= TickAngle

\* C29: angle_to_ticks returns the integer nearest to
\* (angle + offset) * TICKS_PER_RADIAN (rounding, not truncation), and for
\* a reversed joint MAX_TICKS - 1 minus that integer.
C29_AngleToTicksRounds ==
    (op.name = "angle_to_ticks")
        => LET r == outcome.data[1]
           IN Nearest(IF op.ccw THEN ANGLE_MAX_TICKS - 1 - r ELSE r,
                      op.angle + op.offset)

\* what the conversion returns is the angle in ticks cut off at the point,
\* towards zero
AngleToTicksTruncates ==
    (op.name = "angle_to_ticks")
        => LET r == outcome.data[1]
               t == IF op.ccw THEN ANGLE_MAX_TICKS - 1 - r ELSE r
               x == op.angle + op.offset
           IN IF x >= 0
              THEN t * TickAngle <= x /\ x < (t + 1) * TickAngle
              ELSE (t - 1) * TickAngle < x /\ x <= t * TickAngle

---------------------------------------------------------------------------
(* The conversion of speed, applied to speeds below, within and above the   *)
(* range of the servo                                                      *)

MaxSpeed == 114000      \* the largest speed of the whole range, 1/1000 rpm

SpeedToTicks(speed) ==
    Commit(Converted(convert_speed_to_ticks(speed)),
           [NoOp EXCEPT !.name = "speed_to_ticks", !.speed = speed])

\* every speed from below zero to above _SPEED_MAX_RPM, and -5 and 200 rpm
ConvertedSpeeds == ((-1000)..MaxSpeed) \cup {-5000, 200000}

CallSpeedToTicks ==
    /\ op = NoOp
    /\ \E v \in ConvertedSpeeds : SpeedToTicks(v)

NextSpeed ==
    \/ CallSpeedToTicks
    \/ NextCall

SpecSpeed == Init /\ [][NextSpeed]_vars

\* r = floor(v / RPM_PER_TICK + 0.5)
RoundedHalfUp(r, v) ==
    /\ r * 2 * SPEED_UNIT <= 2 * v + SPEED_UNIT
    /\ 2 * v + SPEED_UNIT < (r + 1) * 2 * SPEED_UNIT

\* C30: speed_to_ticks clamps its input: for every rpm below 0 the result
\* equals speed_to_ticks(0) = 0, for every rpm above MAX_RPM the result
\* equals speed_to_ticks(MAX_RPM) = 1023, and for every input the result
\* lies in 0..1023 and equals floor(rpm / RPM_PER_TICK + 0.5) of the
\* clamped rpm.
C30_SpeedToTicksClamps ==
    (op.name = "speed_to_ticks")
        => LET r == outcome.data[1]
               v == op.speed
           IN /\ outcome.kind = "int"
              /\ r \in 0..1023
              /\ v < 0 => (r = convert_speed_to_ticks(0) /\ r = 0)
              /\ v > SPEED_MAX_RPM
                    => (r = convert_speed_to_ticks(SPEED_MAX_RPM) /\ r = 1023)
              /\ RoundedHalfUp(r, IF v < 0 THEN 0
                                  ELSE IF v > SPEED_MAX_RPM
                                       THEN SPEED_MAX_RPM ELSE v)

\* 200 rpm converted: 1023 ticks
C30_Witness ==
    /\ op.name = "speed_to_ticks"
    /\ op.speed = 200000
    /\ outcome.data = <<1023>>

---------------------------------------------------------------------------
(* Position and speed read through the joint                               *)

\* ServoAx12a.get_present_pos_speed
get_present_pos_speed(c, s) ==
    Bind(Merged(request_n_word(c, s, PRESENT_POSITION, 1)), LAMBDA c1 :
        IF c1.exc # NoExc THEN c1
        ELSE Bind(Merged(request_n_word(c1, s, PRESENT_SPEED, 1)),
                  LAMBDA c2 :
                IF c2.exc # NoExc THEN c2
                ELSE [c2 EXCEPT !.ret = RetList(<<c1.ret.data[1],
                                                  c2.ret.data[1]>>)]))

\* JointDrive.__convert_ticks_to_speed, in whole rpm:
\* floor(clip(ticks, 0, _SPEED_MAX_TICKS) * _SPEED_UNIT)
convert_ticks_to_speed(ticks) ==
    (Clip(ticks, 0, SPEED_MAX_TICKS) * SPEED_UNIT) \div 1000

\* self.__convert_ticks_to_speed(*args): the method takes one argument
\* besides self
call_convert_ticks_to_speed(c, args) ==
    IF Len(args) # 1 THEN Raise(c, "TypeError")
    ELSE [c EXCEPT !.ret = RetInt(convert_ticks_to_speed(args[1]))]

\* the pair read by the servo class turned into [angle, speed]
JointPair(c1, ccw) ==
    IF c1.exc # NoExc THEN c1
    ELSE LET return_data == c1.ret.data
             angle == convert_ticks_to_angle(return_data[1], ccw, a_offset)
             c2 == call_convert_ticks_to_speed(c1, <<return_data[2], ccw>>)
         IN IF c2.exc # NoExc THEN c2
            ELSE [c2 EXCEPT !.ret = RetList(<<angle, c2.ret.data[1]>>)]

\* JointDrive.get_present_pos_speed
JointDrive_get_present_pos_speed(c, s, ccw) ==
    Bind(get_present_pos_speed(c, s), LAMBDA c1 : JointPair(c1, ccw))

\* JointDrive.get_goal_pos_speed
JointDrive_get_goal_pos_speed(c, s, ccw) ==
    Bind(get_goal_pos_speed(c, s), LAMBDA c1 : JointPair(c1, ccw))

JointGetPresentPosSpeed(s, ccw) ==
    Commit(JointDrive_get_present_pos_speed(EnterOnLine, s, ccw),
           [RegisterOp("joint_get_present_pos_speed", s, PRESENT_POSITION,
                       <<>>) EXCEPT !.ccw = ccw])

JointGetGoalPosSpeed(s, ccw) ==
    Commit(JointDrive_get_goal_pos_speed(EnterOnLine, s, ccw),
           [RegisterOp("joint_get_goal_pos_speed", s, GOAL_POSITION,
                       <<>>) EXCEPT !.ccw = ccw])

CallJointGetPresentPosSpeed ==
    /\ op = NoOp
    /\ \E s \in Ids, d \in BOOLEAN : JointGetPresentPosSpeed(s, d)

CallJointGetGoalPosSpeed ==
    /\ op = NoOp
    /\ \E s \in Ids, d \in BOOLEAN : JointGetGoalPosSpeed(s, d)

NextJointRead ==
    \/ CallSetGoalPosSpeedOnLine
    \/ CallJointGetPresentPosSpeed
    \/ CallJointGetGoalPosSpeed
    \/ NextCall

SpecJointRead == Init /\ [][NextJointRead]_vars

\* the word the servo holds at register r
WordAt(s, r) == regs[s][r + 1] * 256 + regs[s][r]

\* the call asked for the word at r and then for the word at r + 2
TwoWordReads(r) ==
    /\ Len(io) = 4
    /\ io[1].k = "write" /\ io[1].pkt[6] = r /\ io[1].pkt[7] = 2
    /\ io[2].k = "read"
    /\ io[3].k = "write" /\ io[3].pkt[6] = r + 2 /\ io[3].pkt[7] = 2
    /\ io[4].k = "read"

\* the call returned [angle, speed] converted from the words at r and r + 2
PairReturned(r) ==
    /\ outcome.kind = "list"
    /\ outcome.data =
         <<convert_ticks_to_angle(WordAt(op.id, r), op.ccw, a_offset),
           convert_ticks_to_speed(WordAt(op.id, r + 2))>>

\* C31: JointDrive.get_present_pos_speed() and
\* JointDrive.get_goal_pos_speed() each perform two word reads (position
\* register, then speed register) and return the pair [angle in radian,
\* speed in rpm] converted from the two values read.
C31_JointPairsReturned ==
    /\ op.name = "joint_get_present_pos_speed"
            => (TwoWordReads(PRESENT_POSITION)
                    /\ PairReturned(PRESENT_POSITION))
    /\ op.name = "joint_get_goal_pos_speed"
            => (TwoWordReads(GOAL_POSITION) /\ PairReturned(GOAL_POSITION))

\* both getters make the two word reads and then raise TypeError
JointPairsRaise ==
    /\ op.name = "joint_get_present_pos_speed"
            => (TwoWordReads(PRESENT_POSITION)
                    /\ outcome.kind = "raise" /\ outcome.exc = "TypeError")
    /\ op.name = "joint_get_goal_pos_speed"
            => (TwoWordReads(GOAL_POSITION)
                    /\ outcome.kind = "raise" /\ outcome.exc = "TypeError")

---------------------------------------------------------------------------
(* The goal angle a joint saves                                            *)

\* JointDrive.get_saved_goal_position
get_saved_goal_position(c, s) ==
    [c EXCEPT !.ret = RetInt(c.joints[s].savedgoalposition)]

\* the goal angles commanded last when the batch packet follows w
RECURSIVE GoalsAfter(_, _)
GoalsAfter(w, packet) ==
    IF Len(packet) = 0 THEN w
    ELSE GoalsAfter([w EXCEPT ![packet[1].id].goal = packet[1].vals[1]],
                    Tail(packet))

GoalBySetGoalPosition(s, ccw, angle) ==
    Noting(JointDrive_set_goal_position(Enter(<<>>), s, ccw, angle, TRUE),
           [NoOp EXCEPT !.name = "joint_set_goal_position", !.id = s,
                        !.level = return_level[s], !.ccw = ccw,
                        !.angle = angle, !.trigger = TRUE],
           [want EXCEPT ![s].goal = angle])

GoalBySetDesiredAngleSpeed(s, ccw, angle, speed) ==
    Noting(set_desired_angle_speed(Enter(<<>>), s, ccw, angle, speed, TRUE),
           [NoOp EXCEPT !.name = "set_desired_angle_speed", !.id = s,
                        !.level = return_level[s], !.ccw = ccw,
                        !.angle = angle, !.speed = speed, !.trigger = TRUE],
           [want EXCEPT ![s].goal = angle])

GoalBySetAngleSpeedSync(packet) ==
    Noting(set_angle_speed_sync(Enter(<<>>), packet),
           [NoOp EXCEPT !.name = "set_angle_speed_sync",
                        !.id = ID_BROADCAST, !.reg = GOAL_POSITION,
                        !.packet = packet],
           GoalsAfter(want, packet))

GetSavedGoalPosition(s) ==
    Commit(get_saved_goal_position(Enter(<<>>), s),
           [NoOp EXCEPT !.name = "get_saved_goal_position", !.id = s,
                        !.level = return_level[s]])

\* goal angles within the limits of the joints
SavedAngles == {-150 * Degree, 100 * Degree}

\* batches of well-formed entries for the joints
SavedBatches ==
    UNION {[1..n -> {[id |-> i, ccw |-> FALSE, vals |-> <<a, 70>>] :
                        i \in Ids, a \in SavedAngles}] : n \in 1..MaxDevices}

CallGoalBySetGoalPosition ==
    /\ op = NoOp
    /\ \E s \in Ids, d \in BOOLEAN, a \in SavedAngles :
        GoalBySetGoalPosition(s, d, a)

CallGoalBySetDesiredAngleSpeed ==
    /\ op = NoOp
    /\ \E s \in Ids, d \in BOOLEAN, a \in SavedAngles :
        GoalBySetDesiredAngleSpeed(s, d, a, 70)

CallGoalBySetAngleSpeedSync ==
    /\ op = NoOp
    /\ \E b \in SavedBatches : GoalBySetAngleSpeedSync(b)

CallGetSavedGoalPosition ==
    /\ op = NoOp
    /\ \E s \in Ids : GetSavedGoalPosition(s)

NextSaved ==
    \/ CallGoalBySetGoalPosition
    \/ CallGoalBySetDesiredAngleSpeed
    \/ CallGoalBySetAngleSpeedSync
    \/ CallGetSavedGoalPosition
    \/ NextCall

SpecSaved == Init /\ [][NextSaved]_vars

\* C32: after any sequence of joint commands get_saved_goal_position()
\* returns the angle of the most recent goal command issued to that joint
\* through set_goal_position, set_desired_angle_speed or
\* set_angle_speed_sync (0 before any command).
C32_SavedGoalIsLastCommand ==
    op.name = "get_saved_goal_position"
        => (outcome.kind = "int" /\ outcome.data = <<want[op.id].goal>>)

\* the saved goal is the angle of the last set_desired_angle_speed alone
SavedOnlyBySetDesired ==
    /\ op.name = "set_desired_angle_speed"
            => joints[op.id].savedgoalposition = op.angle
    /\ [][op'.name \in {"joint_set_goal_position", "set_angle_speed_sync"}
            => \A s \in Ids : joints'[s].savedgoalposition
                                = joints[s].savedgoalposition]_vars

---------------------------------------------------------------------------
(* What a rejected joint batch leaves behind                               *)

\* the batch of the call has an entry without exactly angle and speed
BatchMisused ==
    /\ op.name = "set_angle_speed_sync"
    /\ \E i \in 1..Len(op.packet) : Len(op.packet[i].vals) # 2

\* C33: a sync command rejected for protocol misuse (an entry with fewer
\* or more than the two values angle and speed) has no partial side
\* effect: nothing is transmitted, no joint's state changes, and every
\* entry of the caller's batch, the entries before the offending one
\* included, still holds the angle and speed the caller passed in.
C33_RejectedBatchUntouched ==
    /\ [](BatchMisused => (io = <<>> /\ lists = op.packet))
    /\ [][BatchMisused' => joints' = joints]_vars

\* a misused batch is never transmitted
MisusedBatchNotSent == BatchMisused => io = <<>>

---------------------------------------------------------------------------
(* A session and its servo: immediate and buffered writes, action          *)

MaxWaiting == 0     \* most bytes waiting on the port when a call begins

SetReturnLevelEither(s, level, trigger) ==
    Commit(set_return_level(EnterOnLine, s, level, trigger),
           [RegisterOp("set_return_level", s, RETURN_LEVEL, <<level>>)
                EXCEPT !.trigger = trigger])

SetReturnDelayEither(s, delay, trigger) ==
    Commit(set_return_delay(EnterOnLine, s, delay, trigger),
           [RegisterOp("set_return_delay", s, RETURN_DELAY_TIME, <<delay>>)
                EXCEPT !.trigger = trigger])

ActionOnLine(s) ==
    Commit(action(EnterOnLine, s),
           [NoOp EXCEPT !.name = "action", !.id = s,
                        !.level = return_level[s]])

PingOnLine(id) ==
    Commit(ping(EnterOnLine, id),
           [NoOp EXCEPT !.name = "ping", !.id = id])

SyncWriteOnLine(mem_address, packet) ==
    Commit(sync_write(EnterOnLine, mem_address, packet),
           [NoOp EXCEPT !.name = "sync_write", !.id = ID_BROADCAST,
                        !.reg = mem_address, !.packet = packet])

\* one goal position for every servo
SessionBatch == [s \in Ids |-> [id |-> s, ccw |-> FALSE, vals |-> <<512>>]]

CallSetReturnLevelEither ==
    /\ op = NoOp
    /\ Len(line) <= MaxWaiting
    /\ \E s \in Ids, l \in Levels, t \in BOOLEAN :
        SetReturnLevelEither(s, l, t)

CallSetReturnDelayEither ==
    /\ op = NoOp
    /\ Len(line) <= MaxWaiting
    /\ \E s \in Ids, t \in BOOLEAN : SetReturnDelayEither(s, 250, t)

CallGetReturnDelayOnLine ==
    /\ op = NoOp
    /\ Len(line) <= MaxWaiting
    /\ \E s \in Ids : GetReturnDelay(s)

CallActionOnLine ==
    /\ op = NoOp
    /\ Len(line) <= MaxWaiting
    /\ \E s \in Ids : ActionOnLine(s)

CallPingOnLine ==
    /\ op = NoOp
    /\ Len(line) <= MaxWaiting
    /\ \E id \in Ids \cup {ID_BROADCAST} : PingOnLine(id)

CallSyncWriteOnLine ==
    /\ op = NoOp
    /\ Len(line) <= MaxWaiting
    /\ SyncWriteOnLine(GOAL_POSITION, SessionBatch)

NextSession ==
    \/ CallSetReturnLevelEither
    \/ CallSetReturnDelayEither
    \/ CallGetReturnDelayOnLine
    \/ CallActionOnLine
    \/ CallPingOnLine
    \/ CallSyncWriteOnLine
    \/ NextCall

SpecSession == Init /\ [][NextSession]_vars

\* C34: after any sequence of set_return_level calls (immediate or
\* buffered, levels 0..2) and action instructions, once each call has
\* returned the session's status return level equals the value held in
\* the servo's status-return-level register.
C34_SessionLevelIsRegister ==
    \A s \in Ids : return_level[s] = regs[s][RETURN_LEVEL]

\* after an immediate set_return_level the two levels of that servo agree
ImmediateLevelIsRegister ==
    (op.name = "set_return_level" /\ op.trigger)
        => return_level[op.id] = regs[op.id][RETURN_LEVEL]

\* C35: with a servo that answers each instruction according to the
\* status return level it held when the instruction arrived, and never a
\* broadcast frame, the receive buffer of the port is empty when the next
\* operation begins: every status packet is consumed in full by the
\* operation that elicited it.
C35_ReceiveBufferEmpty == op = NoOp => line = <<>>

\* while the session's level is the one the servo holds, and nothing was
\* waiting when the call began, a call leaves nothing waiting
NothingLeftWhileLevelsAgree ==
    [][(op = NoOp /\ line = <<>> /\ op'.id \in Ids
        /\ return_level[op'.id] = regs[op'.id][RETURN_LEVEL])
            => line' = <<>>]_vars

---------------------------------------------------------------------------
(* The goal position a joint command puts on the wire                      *)

\* the goal-position words of the frames the call wrote
GoalWords ==
    {f[7] + 256 * f[8] : f \in {g \in Frames : g[6] = GOAL_POSITION}}

\* the call is a goal command with an angle the limit check lets through
GoalAccepted ==
    /\ op.name \in {"joint_set_goal_position", "set_desired_angle_speed"}
    /\ WithinLimits(op.angle)

\* C36: for either rotation sense and the default limits, and every angle
\* the soft-limit check accepts, the two limit angles included, the goal
\* position that set_goal_position or set_desired_angle_speed writes to
\* the servo lies in 0..1023.
C36_GoalTicksInRange ==
    GoalAccepted => \A w \in GoalWords : w \in 0..ANGLE_MAX_TICKS

\* without reversed rotation the goal position written is in range
GoalTicksInRangeForward ==
    (GoalAccepted /\ ~op.ccw) => \A w \in GoalWords : w \in 0..ANGLE_MAX_TICKS

\* with reversed rotation the upper limit angle is written as -1: FF FF
GoalTicksAtReversedLimit ==
    (/\ op.name = "joint_set_goal_position"
     /\ op.ccw
     /\ op.angle = a_max - a_offset) => GoalWords = {65535}

---------------------------------------------------------------------------
(* The last error of a session                                             *)

\* Dynamixel.get_last_error
get_last_error(c, s) == [c EXCEPT !.ret = RetInt(c.err[s])]

GetLastError(s) ==
    Commit(get_last_error(Enter(<<>>), s),
           [NoOp EXCEPT !.name = "get_last_error", !.id = s,
                        !.level = return_level[s]])

CallGetLastError ==
    /\ op = NoOp
    /\ \E s \in Ids : GetLastError(s)

NextLastError ==
    \/ CallPing
    \/ CallReadBytes
    \/ CallWriteBytes
    \/ CallSetReturnLevel
    \/ CallAction
    \/ CallSyncWrite
    \/ CallGetLastError
    \/ NextCall

SpecLastError == Init /\ [][NextLastError]_vars

\* the calls that belong to no session: static methods
StaticOps == {"ping", "sync_write", "action_all"}

\* the error byte of the last status packet of at least 6 bytes among the
\* port calls calls, prev if there is none
LastStatusError(calls, prev) ==
    LET full == {i \in 1..Len(calls) :
                    /\ calls[i].k = "read"
                    /\ Len(calls[i].pkt) >= STATUS_PACKET_BASE_LENGTH}
    IN IF full = {} THEN prev
       ELSE calls[CHOOSE i \in full : \A j \in full : j <= i].pkt[5]

\* C37: get_last_error() of a session returns the error byte of the most
\* recent status packet of at least 6 bytes that this session consumed, 0
\* before any; a short or empty read, a ping, a sync-write and any
\* operation of another session leave it unchanged.
C37_LastErrorIsLastStatus ==
    /\ \A s \in Ids : err[s] = 0
    /\ [][\A s \in Ids :
            err'[s] = IF op'.id = s /\ op'.name \notin StaticOps
                                    /\ op'.name # NoOp.name
                      THEN LastStatusError(io', err[s])
                      ELSE err[s]]_vars
    /\ [](op.name = "get_last_error"
            => (outcome.kind = "int" /\ outcome.data = <<err[op.id]>>))

\* session 1 reports error byte 5 while session 2 never got one
C37_Witness ==
    /\ op.name = "get_last_error"
    /\ op.id = 1
    /\ outcome.data = <<5>>
    /\ err[2] = 0

---------------------------------------------------------------------------
(* ServoMaster: the queued positions and their transmission                *)

\* ServoMaster.SPEED
SPEED == 70

\* ServoMaster.joint_drive_positions[joint] = position, as a caller queues
\* a position: the dictionary keeps one position for a joint, in the order
\* the joints were first queued
queue_position(c, s, ccw, position) ==
    LET q == c.joint_drive_positions
        at == {i \in 1..Len(q) : q[i].id = s}
    IN IF at = {}
       THEN [c EXCEPT !.joint_drive_positions =
                        Append(q, [id |-> s, ccw |-> ccw, pos |-> position])]
       ELSE [c EXCEPT !.joint_drive_positions =
                        [i \in 1..Len(q) |->
                            IF i \in at THEN [q[i] EXCEPT !.pos = position]
                            ELSE q[i]]]

\* the list of [joint_drive, position, SPEED] built from the dictionary
position_parameters(q) ==
    [i \in 1..Len(q) |->
        [id |-> q[i].id, ccw |-> q[i].ccw, vals |-> <<q[i].pos, SPEED>>]]

\* ServoMaster.send_positions
send_positions(c) ==
    LET c1 == set_angle_speed_sync(
                    c, position_parameters(c.joint_drive_positions))
    IN IF c1.exc # NoExc THEN c1
       ELSE [c1 EXCEPT !.joint_drive_positions = <<>>, !.ret = RetNone]

QueuePosition(s, position) ==
    Commit(queue_position(Enter(<<>>), s, FALSE, position),
           [NoOp EXCEPT !.name = "queue_position", !.id = s,
                        !.angle = position])

SendPositions ==
    Commit(send_positions(Enter(<<>>)),
           [NoOp EXCEPT !.name = "send_positions", !.id = ID_BROADCAST,
                        !.reg = GOAL_POSITION,
                        !.packet = position_parameters(joint_drive_positions)])

\* positions within the limits of the joints
QueuedAngles == {0, 100 * Degree}

CallQueuePosition ==
    /\ op = NoOp
    /\ \E s \in Ids, a \in QueuedAngles : QueuePosition(s, a)

CallSendPositions ==
    /\ op = NoOp
    /\ SendPositions

NextMaster ==
    \/ CallQueuePosition
    \/ CallSendPositions
    \/ NextCall

SpecMaster == Init /\ [][NextMaster]_vars

\* the sync-write frame f carries the goal position of the entry e
Carries(f, e) ==
    /\ f[5] = pkt_sync_write[5]
    /\ f[6] = GOAL_POSITION
    /\ \E k \in 8..(Len(f) - 3) :
        /\ f[k] = e.id
        /\ f[k + 1] + 256 * f[k + 2]
                = convert_angle_to_ticks(e.vals[1], e.ccw, a_offset)

\* C38: send_positions discards a queued position only after a sync-write
\* frame with that joint's position has been handed to the port: after
\* any call every position that was queued has been transmitted exactly
\* once and the queue is empty.
C38_QueuedPositionsSent ==
    op.name = "send_positions" =>
        /\ joint_drive_positions = <<>>
        /\ \A i \in 1..Len(op.packet) :
            Cardinality({j \in 1..Len(io) :
                            /\ io[j].k = "write"
                            /\ Carries(io[j].pkt, op.packet[i])}) = 1

\* send_positions empties the queue and transmits nothing
QueuedPositionsDropped ==
    op.name = "send_positions" => (joint_drive_positions = <<>> /\ io = <<>>)

---------------------------------------------------------------------------
(* Building a joint                                                        *)

\* Dynamixel.__init__
Dynamixel_init(c, s) == [c EXCEPT !.rl[s] = 2, !.err[s] = 0]

\* JointDrive.__init__ with the default offset and limits: the level
\* written is self.return_level, which Dynamixel.__init__ has just set; the
\* argument return_level is not used
JointDrive_init(c, s, ccw, level) ==
    LET c0 == [Dynamixel_init(c, s) EXCEPT !.joints[s] = NewJoint]
    IN Bind(set_return_level(c0, s, c0.rl[s], TRUE), LAMBDA c1 :
        IF c1.exc # NoExc THEN c1
        ELSE Bind(set_cw_angle_limit(
                    c1, s, convert_angle_to_ticks(a_min, FALSE, 0), TRUE),
                  LAMBDA c2 :
            IF c2.exc # NoExc THEN c2
            ELSE set_ccw_angle_limit(
                    c2, s, convert_angle_to_ticks(a_max, FALSE, 0), TRUE)))

NewJointDrive(s, ccw, level) ==
    Commit(JointDrive_init(EnterOnLine, s, ccw, level),
           [NoOp EXCEPT !.name = "JointDrive", !.id = s, !.ccw = ccw,
                        !.data = <<level>>])

CallNewJointDrive ==
    /\ op = NoOp
    /\ \E s \in Ids, d \in BOOLEAN, l \in Levels : NewJointDrive(s, d, l)

NextBuild ==
    \/ CallNewJointDrive
    \/ CallSetReturnLevelOnLine
    \/ CallSetGoalPositionOnLine
    \/ NextCall

SpecBuild == Init /\ [][NextBuild]_vars

\* the frames the call wrote, in order
Written == SelectSeq(io, LAMBDA x : x.k = "write")

\* the i-th frame written is an immediate write of word at register
ImmediateWrite(i, register, word) ==
    /\ Len(Written) >= i
    /\ Written[i].pkt[5] = DIRECT_ACTION
    /\ Written[i].pkt[6] = register
    /\ word = <<Written[i].pkt[7]>>
        \/ (/\ Len(Written[i].pkt) = 9
            /\ word = <<Written[i].pkt[7] + 256 * Written[i].pkt[8]>>)

\* C39: constructing JointDrive(id, return_level = r) for r in {0, 1, 2}
\* writes r as an immediate write to the servo's status-return-level
\* register and leaves the session's status return level equal to r,
\* before the CW and CCW angle-limit writes are sent.
C39_ConstructorSetsLevel ==
    op.name = "JointDrive" =>
        /\ ImmediateWrite(1, RETURN_LEVEL, op.data)
        /\ return_level[op.id] = op.data[1]
        /\ Written[2].pkt[6] = CW_ANGLE_LIMIT
        /\ Written[3].pkt[6] = CCW_ANGLE_LIMIT

\* the constructor writes level 2 and the limits 0 and 1023, whatever
\* level it is given
ConstructorWritesLevelTwo ==
    op.name = "JointDrive" =>
        /\ Len(Written) = 3
        /\ ImmediateWrite(1, RETURN_LEVEL, <<2>>)
        /\ return_level[op.id] = 2
        /\ ImmediateWrite(2, CW_ANGLE_LIMIT, <<0>>)
        /\ ImmediateWrite(3, CCW_ANGLE_LIMIT, <<1023>>)

====
